---------------------------- MODULE Spec2Model ----------------------------
(***************************************************************************)
(* A model of the World Cup dashboard (src/callbacks.py,                   *)
(* src/data_helper.py) and of its startup (src/app.py).                    *)
(*                                                                         *)
(* The state is the reference data handed to register_callbacks            *)
(* (world_cup_overview_df, matches_df, players_df), the properties of the  *)
(* Dash components the callbacks read and write (ui), and the callbacks    *)
(* the renderer still has to run for the current user event (pending).     *)
(* A user event sets the property it changes and schedules the callback    *)
(* that has that property as an Input; a callback that writes a property   *)
(* schedules the callback that has that property as an Input.  A callback  *)
(* that raises writes nothing and schedules nothing.  One user event is    *)
(* processed to the end of its cascade before the next one is taken.       *)
(***************************************************************************)
EXTENDS Integers, Sequences, FiniteSets, TLC

VARIABLES
    world_cup_overview_df,  \* the tournament table, one record per year
    matches_df,   \* the match table, one record per MatchID
    players_df,   \* the player-event table
    ui,           \* the component properties of one session
    pending,      \* callbacks scheduled by the renderer, in order
    lastEvent,    \* the user event whose cascade is running or has just ended
    pre,          \* ui as it was when lastEvent was taken
    raised,       \* whether a callback of lastEvent's cascade raised
    fnArgs,       \* inputs of a function applied on its own (SpecMap)
    fnResult,     \* its result
    peer          \* a second session of the same server: its ui, pending,
                  \* lastEvent, pre and raised (SpecTwo), <<>> when there is none

vars == <<world_cup_overview_df, matches_df, players_df, ui, pending, lastEvent, pre,
          raised, fnArgs, fnResult, peer>>

-----------------------------------------------------------------------------
(* Bounds of the model *)

NumMatches == 2

\* The most (player, team) pairs with a goal in a table of the leaderboards.
MaxScorers == 11

-----------------------------------------------------------------------------
(* Values *)

\* The number of rows of a leaderboard: head(10).
TopN == 10

None == "None"            \* Python's None
NaN == "NaN"              \* pandas' missing value
NoUpdate == "no_update"   \* dash.no_update

Teams == {"Brazil", "England", "Scotland"}

\* Every name the model sorts, in the order Python's sorted() gives strings.
Alphabet ==
    <<"Amarildo", "BRA", "Ball", "Brazil", "Charlton", "Dalglish", "Didi", "ENG",
      "England", "GDR", "Garrincha", "German DR", "Greaves", "Hurst", "Jordan",
      "Law", "Pele", "Peters", "SCO", "Scotland", "Vava">>

NameRank(s) == CHOOSE i \in DOMAIN Alphabet : Alphabet[i] = s

\* The 'Home Team Initials' / 'Away Team Initials' columns.
InitialsOf(team) ==
    CASE team = "Brazil" -> "BRA"
      [] team = "England" -> "ENG"
      [] team = "Scotland" -> "SCO"
      [] team = NaN -> NaN
      [] OTHER -> "GDR"

\* The player the model fields for each team.
PlayerOf(team) ==
    CASE team = "Brazil" -> "Pele"
      [] team = "England" -> "Hurst"
      [] OTHER -> "Law"

\* get_country_iso_mapping(), restricted to the names of the model; a name
\* that is no key of the dict maps to NaN (Series.map).
country_iso_map(name) ==
    CASE name = "Brazil" -> "BRA"
      [] name = "England" -> "GBR"
      [] name = "Scotland" -> "GBR"
      [] OTHER -> NaN

\* MANUAL_NAME_TO_ISO2.get(name), restricted to the names of the model; ""
\* stands for the None of a name that is no key.
MANUAL_NAME_TO_ISO2(name) ==
    CASE name = "Brazil" -> "br"
      [] name = "England" -> "gb-eng"
      [] name = "Scotland" -> "gb-sct"
      [] name = "Germany DR" -> "de"
      [] OTHER -> ""

\* name.strip().
strip(name) ==
    CASE name = " Brazil " -> "Brazil"
      [] name = " " -> ""
      [] OTHER -> name

\* Whether name is a str.
IsStr(name) == name \notin {None, NaN}

\* country_to_iso2; "" stands for None.  'not name' is true of None and of
\* '', not of NaN.  The codes of the dict are in lower case already.
country_to_iso2(name) ==
    IF name = None \/ name = "" \/ ~IsStr(name)
    THEN ""
    ELSE MANUAL_NAME_TO_ISO2(strip(name))

\* get_flag_url_by_iso: the three parts of the f-string.
get_flag_url_by_iso(iso2) ==
    IF iso2 = "" THEN <<>> ELSE <<"https://flagcdn.com/w320/", iso2, ".png">>

\* get_flag_url; <<>> stands for the empty string.
get_flag_url(country_name) ==
    LET iso2 == country_to_iso2(country_name)
    IN IF iso2 # "" THEN get_flag_url_by_iso(iso2) ELSE <<>>

\* The order of the ISO codes under sort_values, NaN last.
IsoRank(iso) ==
    CASE iso = "BRA" -> 1
      [] iso = "GBR" -> 2
      [] OTHER -> 3

\* status_order of create_map_figure.
status_order == <<"Participated Historically", "Active Participant",
                  "Third Place", "Runner-Up", "Winner">>

StatusRank(s) == CHOOSE i \in DOMAIN status_order : status_order[i] = s

\* The tournament table read from WorldCups.csv: one record per year.
\* Attendance is a column of strings with dots between the groups of three
\* digits ('590.549'), kept as the groups.
WorldCupsCsv ==
    << [Year |-> 1930, Country |-> "Uruguay", Winner |-> "Brazil",
        RunnersUp |-> "England", Third |-> "Scotland", GoalsScored |-> 70,
        Attendance |-> [dtype |-> "str", groups |-> <<590, 549>>]],
       [Year |-> 1934, Country |-> "Italy", Winner |-> "Scotland",
        RunnersUp |-> "Brazil", Third |-> "England", GoalsScored |-> 68,
        Attendance |-> [dtype |-> "str", groups |-> <<363, 0>>]] >>

\* COUNTRY_TO_CONTINENT, restricted to the hosts of the model.
COUNTRY_TO_CONTINENT(country) ==
    CASE country = "Uruguay" -> "South America"
      [] country = "Italy" -> "Europe"
      [] OTHER -> NaN

\* add_continent_column: the table with the continent of each host.
add_continent_column(df) ==
    [i \in DOMAIN df |->
        [Year |-> df[i].Year, Country |-> df[i].Country, Winner |-> df[i].Winner,
         RunnersUp |-> df[i].RunnersUp, Third |-> df[i].Third,
         GoalsScored |-> df[i].GoalsScored, Attendance |-> df[i].Attendance,
         Continent |-> COUNTRY_TO_CONTINENT(df[i].Country)]]

-----------------------------------------------------------------------------
(* Sequences *)

Range(s) == {s[i] : i \in DOMAIN s}

\* Series.unique(): the values in order of first appearance.
RECURSIVE Unique(_)
Unique(s) ==
    IF s = <<>> THEN <<>>
    ELSE LET r == Unique(SubSeq(s, 1, Len(s) - 1))
             x == s[Len(s)]
         IN IF x \in Range(r) THEN r ELSE Append(r, x)

\* sorted() fails on a list that holds NaN and a string: '<' is not
\* supported between a float and a str.
sorted_raises(S) == NaN \in S /\ S # {NaN}

\* sorted() of a set of names; a single value is compared with nothing.
RECURSIVE Sorted(_)
Sorted(S) ==
    IF S = {} THEN <<>>
    ELSE IF S = {NaN} THEN <<NaN>>
    ELSE LET m == CHOOSE x \in S : \A y \in S : NameRank(x) <= NameRank(y)
         IN <<m>> \o Sorted(S \ {m})

\* The sum of a column over the rows of s: s[column].sum().
SumOver(s, column) ==
    LET f[i \in 0..Len(s)] == IF i = 0 THEN 0 ELSE f[i - 1] + s[i][column]
    IN f[Len(s)]

\* The rows of s at the indices I, in order.
RowsAt(s, I) ==
    LET f[i \in 0..Len(s)] ==
            IF i = 0 THEN <<>>
            ELSE IF i \in I THEN Append(f[i - 1], s[i]) ELSE f[i - 1]
    IN f[Len(s)]

Max(S) == CHOOSE x \in S : \A y \in S : y <= x

\* Python's truth value of a name argument: None and '' are false.
Truthy(x) == x # None /\ x # ""

-----------------------------------------------------------------------------
(* The reference data *)

\* The matches a row of the match table can record: each year, every
\* ordered pair of teams with the score of that match
\* <<Year, Home Team Name, Away Team Name, Home Team Goals, Away Team Goals>>.
Fixtures ==
    { <<1930, "Brazil", "England", 1, 0>>,   <<1930, "England", "Brazil", 0, 0>>,
      <<1930, "Brazil", "Scotland", 0, 1>>,  <<1930, "Scotland", "Brazil", 2, 1>>,
      <<1930, "England", "Scotland", 1, 1>>, <<1930, "Scotland", "England", 0, 2>>,
      <<1934, "Brazil", "England", 0, 2>>,   <<1934, "England", "Brazil", 1, 0>>,
      <<1934, "Brazil", "Scotland", 1, 1>>,  <<1934, "Scotland", "Brazil", 0, 0>>,
      <<1934, "England", "Scotland", 2, 0>>, <<1934, "Scotland", "England", 1, 0>> }

\* The match tables of NumMatches rows; MatchID is unique (drop_duplicates on
\* MatchID in load_world_cup_data).
MatchTables ==
    { [i \in 1..NumMatches |->
          [MatchID |-> i, Year |-> f[i][1],
           Home |-> f[i][2], Away |-> f[i][3],
           HomeGoals |-> f[i][4], AwayGoals |-> f[i][5],
           HomeInitials |-> InitialsOf(f[i][2]),
           AwayInitials |-> InitialsOf(f[i][3])]] :
      f \in [1..NumMatches -> Fixtures] }

\* An event code: one letter per event it records (<<>> is a missing code).
GoalCode(n) == [k \in 1..n |-> "G"]

\* The player-event table that holds, for every match, one row for a player
\* of each side, his code recording his side's goals, but no row of the team
\* with the initials omit.
Lineups(matches, omit) ==
    LET rows == [i \in 1..(2 * Len(matches)) |->
                   LET m == matches[(i + 1) \div 2]
                   IN IF i % 2 = 1
                      THEN [MatchID |-> m.MatchID, TeamInitials |-> m.HomeInitials,
                            PlayerName |-> PlayerOf(m.Home), Event |-> GoalCode(m.HomeGoals)]
                      ELSE [MatchID |-> m.MatchID, TeamInitials |-> m.AwayInitials,
                            PlayerName |-> PlayerOf(m.Away), Event |-> GoalCode(m.AwayGoals)]]
    IN SelectSeq(rows, LAMBDA r : r.TeamInitials # omit)

\* The Event column is a column of strings (the callbacks use its .str
\* accessor): at least one row of the table has a code.
PlayerTables(matches) ==
    { table \in { Lineups(matches, omit) :
                     omit \in {None} \cup {InitialsOf(t) : t \in Teams} } :
        \E i \in DOMAIN table : table[i].Event # <<>> }

\* all_teams of load_world_cup_data: the home names, then the away names,
\* without the missing ones (dropna), unique.
all_teams ==
    Unique(SelectSeq([i \in 1..(2 * Len(matches_df)) |->
                         IF i <= Len(matches_df) THEN matches_df[i].Home
                         ELSE matches_df[i - Len(matches_df)].Away],
                     LAMBDA name : name # NaN))

\* Series.str.contains('G|P', na=False) on an event code.
Contains(event, letters) == \E i \in DOMAIN event : event[i] \in letters

-----------------------------------------------------------------------------
(* create_map_figure *)

\* The status column after the four assignments, for one country.
AssignStatus(country, teams_to_highlight, winner, runner_up, third_place) ==
    LET s0 == "Participated Historically"
        s1 == IF teams_to_highlight # <<>> /\ country \in Range(teams_to_highlight)
              THEN "Active Participant" ELSE s0
        s2 == IF Truthy(third_place) /\ country = third_place THEN "Third Place" ELSE s1
        s3 == IF Truthy(runner_up) /\ country = runner_up THEN "Runner-Up" ELSE s2
    IN IF Truthy(winner) /\ country = winner THEN "Winner" ELSE s3

\* sort_values(by=['iso_alpha', 'status']).
RowBefore(a, b) ==
    \/ IsoRank(a.iso_alpha) < IsoRank(b.iso_alpha)
    \/ /\ IsoRank(a.iso_alpha) = IsoRank(b.iso_alpha)
       /\ StatusRank(a.status) < StatusRank(b.status)

\* sort_values(by=["Goals", "Player"], ascending=[False, True]).
StatBefore(a, b) ==
    \/ a.Goals > b.Goals
    \/ a.Goals = b.Goals /\ NameRank(a.Player) < NameRank(b.Player)

\* sort_values(by=['Goals', 'Player Name'], ascending=[False, True]).
ScorerBefore(a, b) ==
    \/ a.Goals > b.Goals
    \/ a.Goals = b.Goals /\ NameRank(a.PlayerName) < NameRank(b.PlayerName)

\* The order of the rows under the sort keys by.
Before(a, b, by) ==
    CASE by = <<"iso_alpha", "status">> -> RowBefore(a, b)
      [] by = <<"Goals", "Player">> -> StatBefore(a, b)
      [] by = <<"Goals", "Player Name">> -> ScorerBefore(a, b)

\* x put into the sorted sequence s behind the last element that is not
\* after it.
InsertSorted(x, s, by) ==
    LET k == IF \E i \in DOMAIN s : ~Before(x, s[i], by)
             THEN CHOOSE i \in DOMAIN s :
                      /\ ~Before(x, s[i], by)
                      /\ \A j \in DOMAIN s : ~Before(x, s[j], by) => j <= i
             ELSE 0
    IN SubSeq(s, 1, k) \o <<x>> \o SubSeq(s, k + 1, Len(s))

\* DataFrame.sort_values on several keys: a stable sort.
SortValues(s, by) ==
    LET f[i \in 0..Len(s)] ==
            IF i = 0 THEN <<>> ELSE InsertSorted(s[i], f[i - 1], by)
    IN f[Len(s)]

\* drop_duplicates keeping the first row of each ISO code.
DropDuplicatesKeepFirst(s) ==
    RowsAt(s, {i \in DOMAIN s :
                  \A j \in DOMAIN s : j < i => s[j].iso_alpha # s[i].iso_alpha})

\* drop_duplicates(subset='iso_alpha', keep='last').
DropDuplicates(s) ==
    RowsAt(s, {i \in DOMAIN s :
                  \A j \in DOMAIN s : j > i => s[j].iso_alpha # s[i].iso_alpha})

\* map_df, the rows the choropleth is drawn from.
create_map_figure(all_teams_list, teams_to_highlight, winner, runner_up, third_place) ==
    LET all_teams_df ==
            [i \in DOMAIN all_teams_list |->
                [country |-> all_teams_list[i],
                 iso_alpha |-> country_iso_map(all_teams_list[i]),
                 status |-> AssignStatus(all_teams_list[i], teams_to_highlight,
                                         winner, runner_up, third_place)]]
    IN DropDuplicates(SortValues(all_teams_df, <<"iso_alpha", "status">>))

\* The countries a click on the map can report: the hover names of the rows
\* that have a location.
HoverNames(map_df) == {r.country : r \in {x \in Range(map_df) : x.iso_alpha # NaN}}

-----------------------------------------------------------------------------
(* The callbacks of register_callbacks.  Each is the function from its      *)
(* Inputs and States to its Outputs; exception names the error it raises    *)
(* instead of returning ("" when it returns).                               *)

\* The rows whose event code records a goal or a penalty:
\* df[df['Event'].str.contains('G|P', na=False)].
goal_events(rows) == SelectSeq(rows, LAMBDA r : Contains(r.Event, {"G", "P"}))

\* pd.to_numeric of an attendance string with its dots removed.
to_numeric(attendance) ==
    LET groups == attendance.groups
        f[i \in 0..Len(groups)] == IF i = 0 THEN 0 ELSE f[i - 1] * 1000 + groups[i]
    IN [dtype |-> "int", value |-> f[Len(groups)]]

\* The table of the closure after update_overview_scatter has assigned the
\* Attendance column of df, were df the table itself and no copy of it.
overview_after_assignment_in_place(df) == df

\* The table of the closure after update_overview_scatter has assigned the
\* Attendance column of df: df is a copy, the table keeps its column.
overview_after_assignment(df) == world_cup_overview_df

\* update_overview_scatter; year_range is <<first, last>>.  store is the
\* table of the closure when the function returns.
update_overview_scatter(year_range) ==
    LET InRange(r) == r.Year >= year_range[1] /\ r.Year <= year_range[2]
        filtered_df == SelectSeq(world_cup_overview_df, InRange)
        df == [i \in DOMAIN world_cup_overview_df |->
                  [world_cup_overview_df[i] EXCEPT !.Attendance = to_numeric(@)]]
        selected_df == SelectSeq(df, InRange)
        unselected_df == SelectSeq(df, LAMBDA r : ~InRange(r))
        Trace(rows, opacity) ==
            [opacity |-> opacity,
             points |-> [i \in DOMAIN rows |->
                            [x |-> rows[i].Year, y |-> rows[i].GoalsScored,
                             customdata |-> <<rows[i].Year, rows[i].Country,
                                              rows[i].Winner, rows[i].Attendance.value,
                                              rows[i].Continent>>]]]
    IN [figure |-> (IF unselected_df # <<>> THEN <<Trace(unselected_df, 3)>> ELSE <<>>)
                   \o (IF selected_df # <<>> THEN <<Trace(selected_df, 10)>> ELSE <<>>),
        summary_text |-> <<"Highlighting", Len(filtered_df), "tournaments from",
                           year_range[1], "to", year_range[2], "with a total of",
                           SumOver(filtered_df, "GoalsScored"), "goals scored.">>,
        store |-> overview_after_assignment(df)]

\* The order of the group keys (Player Name, Team Initials) under groupby.
KeyBefore(a, b) ==
    \/ NameRank(a[1]) < NameRank(b[1])
    \/ a[1] = b[1] /\ NameRank(a[2]) < NameRank(b[2])

\* The group keys in ascending order.
RECURSIVE SortedKeys(_)
SortedKeys(S) ==
    IF S = {} THEN <<>>
    ELSE LET m == CHOOSE x \in S : \A y \in S \ {x} : KeyBefore(x, y)
         IN <<m>> \o SortedKeys(S \ {m})

\* groupby(['Player Name', 'Team Initials'])['Event'].count().reset_index()
\* .rename(columns={'Event': 'Goals'}): one row per group, in the order of
\* the keys, Goals the number of rows of the group.
GroupCount(rows) ==
    LET keys == SortedKeys({<<r.PlayerName, r.TeamInitials>> : r \in Range(rows)})
    IN [i \in DOMAIN keys |->
           [PlayerName |-> keys[i][1], TeamInitials |-> keys[i][2],
            Goals |-> Len(SelectSeq(rows, LAMBDA r :
                              /\ r.PlayerName = keys[i][1]
                              /\ r.TeamInitials = keys[i][2]))]]

\* sort_values(by='Goals', ascending=False): a sort on one key with the
\* default kind 'quicksort', which is not stable.  The rows with equal Goals
\* come out in an order the sort does not determine, so the results are
\* all the arrangements of the rows S with Goals descending.
RECURSIVE GoalsDescending(_)
GoalsDescending(S) ==
    IF S = {} THEN {<<>>}
    ELSE LET top == {x \in S : \A y \in S : x.Goals >= y.Goals}
         IN UNION {{<<x>> \o o : o \in GoalsDescending(S \ {x})} : x \in top}

\* df.head(10).
head(df) == SubSeq(df, 1, IF Len(df) < TopN THEN Len(df) ELSE TopN)

\* metric_col.lower().
Lower(metric_col) == IF metric_col = "Goals" THEN "goals" ELSE metric_col

\* create_leaderboard_table.
create_leaderboard_table(df, metric_col) ==
    IF df = <<>>
    THEN [kind |-> "message", text |-> <<"No", Lower(metric_col), "recorded.">>]
    ELSE [kind |-> "table",
          rows |-> [i \in DOMAIN df |->
                       [Player |-> df[i].PlayerName, Team |-> df[i].TeamInitials,
                        Metric |-> df[i][metric_col]]]]

\* all_time_boot_table of update_tournament_details: every table the sort of
\* all_top_scorers can lead to.
all_time_boot_tables ==
    LET all_goals == goal_events(players_df)
    IN {create_leaderboard_table(head(all_top_scorers), "Goals") :
           all_top_scorers \in GoalsDescending(Range(GroupCount(all_goals)))}

\* tournament_boot_table of update_tournament_details.
tournament_boot_table(clicked_year) ==
    LET year_matches_ids ==
            {m.MatchID : m \in {x \in Range(matches_df) : x.Year = clicked_year}}
        tournament_players ==
            SelectSeq(players_df, LAMBDA r : r.MatchID \in year_matches_ids)
        goals == goal_events(tournament_players)
        top_scorers == head(SortValues(GroupCount(goals), <<"Goals", "Player Name">>))
    IN create_leaderboard_table(top_scorers, "Goals")

\* golden_boot_tables that shows the year's table whenever a year is clicked,
\* also when the clear button triggered the callback.
golden_boot_tables_ignores_clear(clickData, triggered_id) ==
    IF clickData = <<>>
    THEN all_time_boot_tables
    ELSE {tournament_boot_table(clickData[1])}

\* The golden-boot-tracker output of update_tournament_details.
golden_boot_tables(clickData, triggered_id) ==
    IF triggered_id = "clear-selection-button" \/ clickData = <<>>
    THEN all_time_boot_tables
    ELSE {tournament_boot_table(clickData[1])}

\* initial_outputs with the team dropdown left enabled.
initial_outputs_enabled ==
    [exception |-> "",
     map_fig |-> create_map_figure(all_teams, <<>>, None, None, None),
     summary |-> [kind |-> "placeholder",
                  text |-> "Click on a tournament to see details."],
     options |-> <<>>, value |-> None, disabled |-> FALSE,
     clear_style |-> "none"]

\* initial_outputs with the team options left as they are.
initial_outputs_keeps_options ==
    [exception |-> "",
     map_fig |-> create_map_figure(all_teams, <<>>, None, None, None),
     summary |-> [kind |-> "placeholder",
                  text |-> "Click on a tournament to see details."],
     options |-> ui.team_options, value |-> None, disabled |-> TRUE,
     clear_style |-> "none"]

\* What update_tournament_details returns when the clear button triggered it
\* or no tournament was clicked.
initial_outputs ==
    [exception |-> "",
     map_fig |-> create_map_figure(all_teams, <<>>, None, None, None),
     summary |-> [kind |-> "placeholder",
                  text |-> "Click on a tournament to see details."],
     options |-> <<>>, value |-> None, disabled |-> TRUE,
     clear_style |-> "none"]

\* tournament_teams without the away teams.
tournament_teams_home_only(clicked_year) ==
    LET year_matches == SelectSeq(matches_df, LAMBDA m : m.Year = clicked_year)
    IN Sorted({m.Home : m \in Range(year_matches)})

\* tournament_teams of update_tournament_details: the teams of the matches
\* of clicked_year.
tournament_teams(clicked_year) ==
    LET year_matches == SelectSeq(matches_df, LAMBDA m : m.Year = clicked_year)
    IN Sorted({m.Home : m \in Range(year_matches)}
              \cup {m.Away : m \in Range(year_matches)})

\* update_tournament_details; clickData is <<>> (None) or <<year>>, the
\* customdata[0] of the clicked point.
update_tournament_details(clickData, triggered_id) ==
    IF triggered_id = "clear-selection-button" \/ clickData = <<>>
    THEN initial_outputs
    ELSE
    LET clicked_year == clickData[1]
        year_matches == SelectSeq(matches_df, LAMBDA m : m.Year = clicked_year)
        info_rows == SelectSeq(world_cup_overview_df, LAMBDA r : r.Year = clicked_year)
        tournament_info == info_rows[1]
    IN IF sorted_raises({m.Home : m \in Range(year_matches)}
                        \cup {m.Away : m \in Range(year_matches)})
       THEN [exception |-> "TypeError"]      \* sorted() of NaN and strings
       ELSE IF info_rows = <<>>
       THEN [exception |-> "IndexError"]     \* .iloc[0] of an empty selection
       ELSE [exception |-> "",
             map_fig |-> create_map_figure(all_teams, tournament_teams(clicked_year),
                                           tournament_info.Winner,
                                           tournament_info.RunnersUp,
                                           tournament_info.Third),
             summary |-> [kind |-> "tournament", year |-> tournament_info.Year,
                          country |-> tournament_info.Country,
                          winner |-> tournament_info.Winner,
                          winner_flag |-> get_flag_url(tournament_info.Winner),
                          runner_up |-> tournament_info.RunnersUp,
                          runner_up_flag |-> get_flag_url(tournament_info.RunnersUp),
                          third |-> tournament_info.Third,
                          third_flag |-> get_flag_url(tournament_info.Third)],
             options |-> tournament_teams(clicked_year), value |-> None,
             disabled |-> FALSE, clear_style |-> "block"]

\* One row of the match journey table of update_team_details.
\* A row of the team journey with the result of the home side, whichever
\* side the team played on.
JourneyRowOfHomeSide(match, selected_team) ==
    LET is_home_team == match.Home = selected_team
        opponent == IF is_home_team THEN match.Away ELSE match.Home
    IN [opponent |-> opponent,
        flag |-> get_flag_url(opponent),
        score |-> IF is_home_team THEN <<match.HomeGoals, match.AwayGoals>>
                  ELSE <<match.AwayGoals, match.HomeGoals>>,
        result |-> IF match.HomeGoals = match.AwayGoals THEN "D"
                   ELSE IF match.HomeGoals > match.AwayGoals THEN "W" ELSE "L"]

JourneyRow(match, selected_team) ==
    LET is_home_team == match.Home = selected_team
        opponent == IF is_home_team THEN match.Away ELSE match.Home
    IN [opponent |-> opponent,
        flag |-> get_flag_url(opponent),
        score |-> IF is_home_team THEN <<match.HomeGoals, match.AwayGoals>>
                  ELSE <<match.AwayGoals, match.HomeGoals>>,
        result |-> IF match.HomeGoals = match.AwayGoals THEN "D"
                   ELSE IF \/ is_home_team /\ match.HomeGoals > match.AwayGoals
                           \/ ~is_home_team /\ match.AwayGoals > match.HomeGoals
                        THEN "W" ELSE "L"]

\* historical_opponents of update_team_details: every team selected_team has
\* met, in any year.
historical_opponents(selected_team) ==
    LET all_time_matches == SelectSeq(matches_df, LAMBDA m :
                                m.Home = selected_team \/ m.Away = selected_team)
        home_opponents == {m.Away : m \in {x \in Range(all_time_matches) :
                                               x.Home = selected_team}}
        away_opponents == {m.Home : m \in {x \in Range(all_time_matches) :
                                               x.Away = selected_team}}
    IN Sorted(home_opponents \cup away_opponents)

\* no_team_outputs with the head-to-head panel left visible.
no_team_outputs_panel_shown ==
    [exception |-> "",
     summary |-> [kind |-> "placeholder",
                  text |-> "Select a team to see their performance."],
     options |-> <<>>, value |-> None, disabled |-> TRUE,
     panel_style |-> "block"]

\* What update_team_details returns when no team is selected.
no_team_outputs ==
    [exception |-> "",
     summary |-> [kind |-> "placeholder",
                  text |-> "Select a team to see their performance."],
     options |-> <<>>, value |-> None, disabled |-> TRUE,
     panel_style |-> "none"]

\* team_matches taken from the home matches only.
team_matches_home_only(selected_year, selected_team) ==
    SelectSeq(matches_df, LAMBDA m :
        m.Year = selected_year /\ m.Home = selected_team)

\* team_matches of update_team_details: the matches of selected_team in
\* selected_year, home or away.
team_matches_of(selected_year, selected_team) ==
    SelectSeq(matches_df, LAMBDA m :
        /\ m.Year = selected_year
        /\ (m.Home = selected_team \/ m.Away = selected_team))

\* update_team_details.
update_team_details(selected_team, clickData) ==
    IF selected_team = None \/ clickData = <<>>
    THEN no_team_outputs
    ELSE
    LET selected_year == clickData[1]
        team_matches == team_matches_of(selected_year, selected_team)
        match_table_rows == [i \in DOMAIN team_matches |->
                                JourneyRow(team_matches[i], selected_team)]
        team_match_ids == {m.MatchID : m \in Range(team_matches)}
        home_rows == SelectSeq(team_matches, LAMBDA m : m.Home = selected_team)
        away_rows == SelectSeq(team_matches, LAMBDA m : m.Away = selected_team)
        team_initials == IF home_rows # <<>> THEN home_rows[1].HomeInitials
                         ELSE away_rows[1].AwayInitials
        team_players_events == SelectSeq(players_df, LAMBDA r :
                                   /\ r.MatchID \in team_match_ids
                                   /\ r.TeamInitials = team_initials)
        player_roster == Sorted({r.PlayerName : r \in Range(team_players_events)})
        player_stats ==
            [i \in DOMAIN player_roster |->
                LET player_events == SelectSeq(team_players_events, LAMBDA r :
                                         r.PlayerName = player_roster[i])
                IN [Player |-> player_roster[i],
                    Goals |-> Len(SelectSeq(player_events,
                                LAMBDA r : Contains(r.Event, {"G", "P"}))),
                    YellowCards |-> Len(SelectSeq(player_events,
                                LAMBDA r : Contains(r.Event, {"Y"}))),
                    RedCards |-> Len(SelectSeq(player_events,
                                LAMBDA r : Contains(r.Event, {"R"})))]]
    IN IF team_matches = <<>>
       THEN [exception |-> "IndexError"]     \* .iloc[0] of an empty selection
       ELSE IF player_stats = <<>>
       THEN [exception |-> "KeyError"]       \* sort_values by a missing column
       ELSE IF sorted_raises({m.Away : m \in {x \in Range(matches_df) :
                                                   x.Home = selected_team}}
                             \cup {m.Home : m \in {x \in Range(matches_df) :
                                                        x.Away = selected_team}})
       THEN [exception |-> "TypeError"]      \* sorted() of NaN and strings
       ELSE [exception |-> "",
             summary |-> [kind |-> "team", team |-> selected_team,
                          flag |-> get_flag_url(selected_team),
                          year |-> selected_year,
                          journey |-> match_table_rows,
                          players |-> SortValues(player_stats, <<"Goals", "Player">>)],
             options |-> historical_opponents(selected_team),
             value |-> None, disabled |-> FALSE, panel_style |-> "block"]

\* h2h_matches restricted to the matches team1 played at home.
h2h_matches_of_team1_at_home(team1, opponent) ==
    SelectSeq(matches_df, LAMBDA m : m.Home = team1 /\ m.Away = opponent)

\* h2h_matches restricted to the matches of the selected year.
h2h_matches_of_selected_year(team1, opponent) ==
    SelectSeq(matches_df, LAMBDA m :
        /\ ui.scatter_clickData # <<>> /\ m.Year = ui.scatter_clickData[1]
        /\ \/ m.Home = team1 /\ m.Away = opponent
           \/ m.Home = opponent /\ m.Away = team1)

\* h2h_matches of update_h2h_analysis: the matches of the two teams, in
\* either order.
h2h_matches_of(team1, opponent) ==
    SelectSeq(matches_df, LAMBDA m :
        \/ m.Home = team1 /\ m.Away = opponent
        \/ m.Home = opponent /\ m.Away = team1)

\* opponent_wins without the draws taken off.
opponent_wins_counts_draws(matches_played, team1_wins, draws) ==
    matches_played - team1_wins

\* opponent_wins of update_h2h_analysis.
opponent_wins_of(matches_played, team1_wins, draws) ==
    matches_played - team1_wins - draws

\* team1_wins counting the wins at home only.
team1_wins_at_home(h2h_matches, team1) ==
    Len(SelectSeq(h2h_matches,
                  LAMBDA m : m.Home = team1 /\ m.HomeGoals > m.AwayGoals))

\* team1_wins of update_h2h_analysis: the wins at home and the wins away.
team1_wins_of(h2h_matches, team1) ==
    Len(SelectSeq(h2h_matches,
                  LAMBDA m : m.Home = team1 /\ m.HomeGoals > m.AwayGoals))
    + Len(SelectSeq(h2h_matches,
                    LAMBDA m : m.Away = team1 /\ m.AwayGoals > m.HomeGoals))

\* update_h2h_analysis; None is returned as the output of kind "empty".
update_h2h_analysis(opponent, team1) ==
    IF ~Truthy(opponent) \/ ~Truthy(team1)
    THEN [kind |-> "empty"]
    ELSE
    LET h2h_matches == h2h_matches_of(team1, opponent)
        team1_wins == team1_wins_of(h2h_matches, team1)
        draws == Len(SelectSeq(h2h_matches, LAMBDA m : m.HomeGoals = m.AwayGoals))
        opponent_wins == opponent_wins_of(Len(h2h_matches), team1_wins, draws)
        team1_goals ==
            SumOver(SelectSeq(h2h_matches, LAMBDA m : m.Home = team1), "HomeGoals")
            + SumOver(SelectSeq(h2h_matches, LAMBDA m : m.Away = team1), "AwayGoals")
        opponent_goals ==
            SumOver(SelectSeq(h2h_matches, LAMBDA m : m.Home = opponent), "HomeGoals")
            + SumOver(SelectSeq(h2h_matches, LAMBDA m : m.Away = opponent), "AwayGoals")
    IN IF h2h_matches = <<>>
       THEN [kind |-> "no matches"]
       ELSE [kind |-> "record", team1 |-> team1, opponent |-> opponent,
             matches_played |-> Len(h2h_matches),
             team1_wins |-> team1_wins, draws |-> draws,
             opponent_wins |-> opponent_wins,
             team1_goals |-> team1_goals, opponent_goals |-> opponent_goals]

\* sync_dropdown_from_map_click without the check that the country is an
\* option.
sync_dropdown_unchecked(map_click, dropdown_options) ==
    IF map_click = <<>> THEN NoUpdate ELSE map_click[1]

\* sync_dropdown_from_map_click returning the first option for a valid click.
sync_dropdown_first_option(map_click, dropdown_options) ==
    IF map_click = <<>>
    THEN NoUpdate
    ELSE IF map_click[1] \in Range(dropdown_options)
         THEN dropdown_options[1] ELSE NoUpdate

\* sync_dropdown_from_map_click; map_click is <<>> (None) or <<hovertext>>.
sync_dropdown_from_map_click(map_click, dropdown_options) ==
    IF map_click = <<>>
    THEN NoUpdate
    ELSE LET clicked_country == map_click[1]
             valid_teams == Range(dropdown_options)
         IN IF clicked_country \in valid_teams THEN clicked_country ELSE NoUpdate

-----------------------------------------------------------------------------
(* The session *)

\* The component properties before any callback has written them.
InitialLayout ==
    [scatter_clickData |-> <<>>,
     map_figure |-> <<>>,
     tournament_summary |-> [kind |-> "unset"],
     golden_boot |-> [kind |-> "unset"],
     team_options |-> <<>>,
     team_value |-> None,
     team_disabled |-> FALSE,
     clear_style |-> "block",
     team_player_summary |-> [kind |-> "unset"],
     opponent_options |-> <<>>,
     opponent_value |-> None,
     opponent_disabled |-> FALSE,
     h2h_panel_style |-> "block",
     h2h_output |-> [kind |-> "unset"]]

\* A scheduled run of a callback; triggered_id is the component whose
\* property triggered it (callback_context.triggered).  The map's clickData
\* is read by no callback but the one a click on the map triggers, so it is
\* carried by that call (map_click) instead of being kept in ui.
Call(callback, triggered_id, map_click) ==
    [callback |-> callback, triggered_id |-> triggered_id, map_click |-> map_click]

Quiescent == pending = <<>>

\* The callbacks of the selection cascade.
Callbacks ==
    {"update_tournament_details", "update_team_details", "update_h2h_analysis",
     "sync_dropdown_from_map_click"}

\* The Input properties of the callbacks (their decorators).
Inputs(callback) ==
    CASE callback = "update_tournament_details" ->
             {<<"world-cup-overview-scatter", "clickData">>,
              <<"clear-selection-button", "n_clicks">>}
      [] callback = "update_team_details" -> {<<"team-selector-dropdown", "value">>}
      [] callback = "update_h2h_analysis" -> {<<"opponent-selector-dropdown", "value">>}
      [] callback = "sync_dropdown_from_map_click" ->
             {<<"world-map-choropleth", "clickData">>}

\* Outputs with update_h2h_analysis writing the team dropdown's value too.
OutputsWithTeamValueOfH2H(callback) ==
    CASE callback = "update_tournament_details" ->
             {<<"world-map-choropleth", "figure">>,
              <<"tournament-summary", "children">>,
              <<"golden-boot-tracker", "children">>,
              <<"team-selector-dropdown", "options">>,
              <<"team-selector-dropdown", "value">>,
              <<"team-selector-dropdown", "disabled">>,
              <<"clear-selection-button", "style">>}
      [] callback = "update_team_details" ->
             {<<"team-player-summary", "children">>,
              <<"opponent-selector-dropdown", "options">>,
              <<"opponent-selector-dropdown", "value">>,
              <<"opponent-selector-dropdown", "disabled">>,
              <<"h2h-panel", "style">>}
      [] callback = "update_h2h_analysis" ->
             {<<"h2h-analysis-output", "children">>,
              <<"team-selector-dropdown", "value">>}
      [] callback = "sync_dropdown_from_map_click" ->
             {<<"team-selector-dropdown", "value">>}

\* The Output properties of the callbacks (their decorators).
Outputs(callback) ==
    CASE callback = "update_tournament_details" ->
             {<<"world-map-choropleth", "figure">>,
              <<"tournament-summary", "children">>,
              <<"golden-boot-tracker", "children">>,
              <<"team-selector-dropdown", "options">>,
              <<"team-selector-dropdown", "value">>,
              <<"team-selector-dropdown", "disabled">>,
              <<"clear-selection-button", "style">>}
      [] callback = "update_team_details" ->
             {<<"team-player-summary", "children">>,
              <<"opponent-selector-dropdown", "options">>,
              <<"opponent-selector-dropdown", "value">>,
              <<"opponent-selector-dropdown", "disabled">>,
              <<"h2h-panel", "style">>}
      [] callback = "update_h2h_analysis" -> {<<"h2h-analysis-output", "children">>}
      [] callback = "sync_dropdown_from_map_click" ->
             {<<"team-selector-dropdown", "value">>}

\* Callback a writes a property that is an Input of callback b.
Triggers(a, b) == Outputs(a) \cap Inputs(b) # {}

\* The calls the renderer schedules when the callback has written its
\* Outputs: one for every callback that has one of them as an Input.
RECURSIVE CallsOf(_, _)
CallsOf(callback, S) ==
    IF S = {} THEN <<>>
    ELSE LET b == CHOOSE x \in S : TRUE
             property == CHOOSE q \in Outputs(callback) \cap Inputs(b) : TRUE
         IN <<Call(b, property[1], <<>>)>> \o CallsOf(callback, S \ {b})

Downstream(callback) == CallsOf(callback, {b \in Callbacks : Triggers(callback, b)})

\* The years of the points of the overview scatter.
ScatterYears == {r.Year : r \in Range(world_cup_overview_df)}

\* On page load the renderer runs update_tournament_details, the one
\* callback of the cascade without prevent_initial_call.
Init ==
    /\ world_cup_overview_df = add_continent_column(WorldCupsCsv)
    /\ peer = <<>>
    /\ matches_df \in MatchTables
    /\ players_df \in PlayerTables(matches_df)
    /\ ui = InitialLayout
    /\ pending = <<Call("update_tournament_details", "", <<>>)>>
    /\ lastEvent = [kind |-> "PageLoad", arg |-> None]
    /\ pre = InitialLayout
    /\ raised = FALSE
    /\ fnArgs = <<>>
    /\ fnResult = <<>>

\* A user event: only taken when the previous cascade has ended.
UserEvent(kind, arg, callback, triggered_id, map_click) ==
    /\ Quiescent
    /\ pending' = <<Call(callback, triggered_id, map_click)>>
    /\ lastEvent' = [kind |-> kind, arg |-> arg]
    /\ pre' = ui
    /\ raised' = FALSE
    /\ UNCHANGED <<world_cup_overview_df, matches_df, players_df, peer,
                 fnArgs, fnResult>>

\* A click on the point of tournament y in the overview scatter.
SelectYear(y) ==
    /\ UserEvent("SelectYear", <<y>>, "update_tournament_details",
                 "world-cup-overview-scatter", <<>>)
    /\ ui' = [ui EXCEPT !.scatter_clickData = <<y>>]

\* A click on the clear-selection button.
Clear ==
    /\ UserEvent("Clear", <<>>, "update_tournament_details", "clear-selection-button",
                 <<>>)
    /\ ui' = ui

\* A choice of t in the team dropdown.
SelectTeam(t) ==
    /\ ~ui.team_disabled
    /\ t \in Range(ui.team_options)
    /\ UserEvent("SelectTeam", <<t>>, "update_team_details", "team-selector-dropdown",
                 <<>>)
    /\ ui' = [ui EXCEPT !.team_value = t]

\* A choice of o in the opponent dropdown.
SelectOpponent(o) ==
    /\ ~ui.opponent_disabled
    /\ ui.h2h_panel_style = "block"
    /\ o \in Range(ui.opponent_options)
    /\ UserEvent("SelectOpponent", <<o>>, "update_h2h_analysis",
                 "opponent-selector-dropdown", <<>>)
    /\ ui' = [ui EXCEPT !.opponent_value = o]

\* A click on country c of the map.
MapClick(c) ==
    /\ c \in HoverNames(ui.map_figure)
    /\ UserEvent("MapClick", <<c>>, "sync_dropdown_from_map_click",
                 "world-map-choropleth", <<c>>)
    /\ ui' = ui

\* An Input or State value of a request other than the one that triggered
\* it, read from the last session the server has served before this one.
StateOfLastSession(property) ==
    IF peer = <<>> THEN ui[property] ELSE peer.ui[property]

\* An Input or State value of a request: the browser sends the property of
\* its own session with the request, the server keeps none.
State(property) == ui[property]

\* The renderer runs the callback at the head of pending.
Running(callback) == pending # <<>> /\ Head(pending).callback = callback

RunUpdateTournamentDetails ==
    /\ Running("update_tournament_details")
    /\ LET out == update_tournament_details(ui.scatter_clickData,
                                            Head(pending).triggered_id)
       IN IF out.exception # ""
          THEN /\ raised' = TRUE
               /\ pending' = Tail(pending)
               /\ ui' = ui
          ELSE /\ raised' = raised
               /\ pending' = Tail(pending) \o Downstream("update_tournament_details")
               /\ \E boot_table \in golden_boot_tables(ui.scatter_clickData,
                                                       Head(pending).triggered_id) :
                     ui' = [ui EXCEPT !.map_figure = out.map_fig,
                                   !.tournament_summary = out.summary,
                                   !.golden_boot = boot_table,
                                   !.team_options = out.options,
                                   !.team_value = out.value,
                                   !.team_disabled = out.disabled,
                                   !.clear_style = out.clear_style]
    /\ UNCHANGED <<world_cup_overview_df, matches_df, players_df, peer,
                 lastEvent, pre, fnArgs, fnResult>>

RunUpdateTeamDetails ==
    /\ Running("update_team_details")
    /\ LET out == update_team_details(ui.team_value, State("scatter_clickData"))
       IN IF out.exception # ""
          THEN /\ raised' = TRUE
               /\ pending' = Tail(pending)
               /\ ui' = ui
          ELSE /\ raised' = raised
               /\ pending' = Tail(pending) \o Downstream("update_team_details")
               /\ ui' = [ui EXCEPT !.team_player_summary = out.summary,
                                   !.opponent_options = out.options,
                                   !.opponent_value = out.value,
                                   !.opponent_disabled = out.disabled,
                                   !.h2h_panel_style = out.panel_style]
    /\ UNCHANGED <<world_cup_overview_df, matches_df, players_df, peer,
                 lastEvent, pre, fnArgs, fnResult>>

RunUpdateH2HAnalysis ==
    /\ Running("update_h2h_analysis")
    /\ ui' = [ui EXCEPT !.h2h_output =
                            update_h2h_analysis(ui.opponent_value, State("team_value"))]
    /\ pending' = Tail(pending) \o Downstream("update_h2h_analysis")
    /\ UNCHANGED <<world_cup_overview_df, matches_df, players_df, peer,
                 lastEvent, pre, raised, fnArgs, fnResult>>

RunSyncDropdownFromMapClick ==
    /\ Running("sync_dropdown_from_map_click")
    /\ LET value == sync_dropdown_from_map_click(Head(pending).map_click,
                                                 State("team_options"))
       IN IF value = NoUpdate
          THEN /\ pending' = Tail(pending)
               /\ ui' = ui
          ELSE /\ pending' = Tail(pending)
                             \o Downstream("sync_dropdown_from_map_click")
               /\ ui' = [ui EXCEPT !.team_value = value]
    /\ UNCHANGED <<world_cup_overview_df, matches_df, players_df, peer,
                 lastEvent, pre, raised, fnArgs, fnResult>>

Next ==
    \/ \E y \in ScatterYears : SelectYear(y)
    \/ Clear
    \/ \E t \in Teams : SelectTeam(t)
    \/ \E o \in Teams : SelectOpponent(o)
    \/ \E c \in Teams : MapClick(c)
    \/ RunUpdateTournamentDetails
    \/ RunUpdateTeamDetails
    \/ RunUpdateH2HAnalysis
    \/ RunSyncDropdownFromMapClick

Spec == Init /\ [][Next]_vars

\* The renderer runs every callback it has scheduled.
RunCallback ==
    \/ RunUpdateTournamentDetails
    \/ RunUpdateTeamDetails
    \/ RunUpdateH2HAnalysis
    \/ RunSyncDropdownFromMapClick

\* Weak fairness of RunCallback.  The callback at the head of pending can
\* always be run and running it changes pending, so ENABLED <<RunCallback>>_vars
\* is ~Quiescent, and WF_vars(RunCallback) is written out with it.
FairSpec == Spec /\ ([]<>Quiescent \/ []<><<RunCallback>>_vars)

-----------------------------------------------------------------------------
(* Properties of the session *)

\* The cascade of a user event of this kind has ended.
Done(kind) == Quiescent /\ lastEvent.kind = kind

\* s lists names in strictly ascending alphabetical order (so none twice).
Ascending(s) ==
    \A i, j \in DOMAIN s : i < j => NameRank(s[i]) < NameRank(s[j])

\* The teams of the matches of year y.
TeamsOfYear(y) ==
    {matches_df[i].Home : i \in {k \in DOMAIN matches_df : matches_df[k].Year = y}}
    \cup {matches_df[i].Away : i \in {k \in DOMAIN matches_df : matches_df[k].Year = y}}

\* C1: once the cascade of SelectYear(y) has ended, whatever the state it was
\* taken in, the session is in YearSelected(y): the tournament panel shows y,
\* no team and no opponent is selected, the team dropdown is enabled, and the
\* head-to-head panel is hidden with its opponent dropdown emptied and
\* disabled.
C1_SelectYearEndsInYearSelected ==
    Done("SelectYear") =>
        /\ ui.scatter_clickData = lastEvent.arg
        /\ ui.tournament_summary.kind = "tournament"
        /\ ui.tournament_summary.year = lastEvent.arg[1]
        /\ ui.team_value = None
        /\ ui.opponent_value = None
        /\ ~ui.team_disabled
        /\ ui.h2h_panel_style = "none"
        /\ ui.opponent_options = <<>>
        /\ ui.opponent_disabled

\* SelectYear taken with a team and an opponent selected, for another year.
C1_Witness ==
    /\ Done("SelectYear")
    /\ pre.team_value # None
    /\ pre.opponent_value # None
    /\ pre.h2h_panel_style = "block"
    /\ pre.scatter_clickData # ui.scatter_clickData

\* C2: after SelectYear(y) the team options are exactly the names that are
\* the home or the away team of a match of year y, each once, in ascending
\* alphabetical order, and no team and no opponent is selected.
C2_TeamOptionsOfYear ==
    Done("SelectYear") =>
        /\ Range(ui.team_options) = TeamsOfYear(lastEvent.arg[1])
        /\ Ascending(ui.team_options)
        /\ ui.team_value = None
        /\ ui.opponent_value = None

\* The year has two matches that share a team, one of its teams only plays
\* away, and a team and an opponent were selected before.
C2_Witness ==
    /\ Done("SelectYear")
    /\ Len(ui.team_options) = 3
    /\ \E t \in Range(ui.team_options) : \A i \in DOMAIN matches_df : matches_df[i].Home # t
    /\ pre.team_value # None
    /\ pre.opponent_value # None

\* C3: once the cascade of Clear has ended, whatever the state it was taken
\* in, the session is exactly NoSelection: no team, no opponent, both
\* dropdowns without options and disabled, the head-to-head panel hidden, and
\* the tournament summary, the team summary and the head-to-head output at
\* their placeholder or empty content.
C3_ClearEndsInNoSelection ==
    Done("Clear") =>
        /\ ui.team_value = None
        /\ ui.opponent_value = None
        /\ ui.team_options = <<>>
        /\ ui.team_disabled
        /\ ui.opponent_options = <<>>
        /\ ui.opponent_disabled
        /\ ui.h2h_panel_style = "none"
        /\ ui.tournament_summary.kind = "placeholder"
        /\ ui.team_player_summary.kind = "placeholder"
        /\ ui.h2h_output.kind = "empty"

\* Clear taken with a year, a team and an opponent selected and a
\* head-to-head record shown.
C3_Witness ==
    /\ Done("Clear")
    /\ pre.tournament_summary.kind = "tournament"
    /\ pre.team_player_summary.kind = "team"
    /\ pre.opponent_value # None
    /\ pre.h2h_output.kind = "record"

\* No year is selected: no tournament was clicked, or the selection was
\* cleared since.
YearUnset == ui.scatter_clickData = <<>> \/ ui.tournament_summary.kind # "tournament"

\* C4: in every quiescent state in which no year is selected the team
\* dropdown is disabled, and so no SelectTeam can be taken.
C4_TeamDisabledWithoutYear ==
    (Quiescent /\ YearUnset) =>
        /\ ui.team_disabled
        /\ \A t \in Teams : ~ENABLED SelectTeam(t)

\* The selection was cleared while a year with teams was selected.
C4_Witness ==
    /\ Quiescent
    /\ YearUnset
    /\ lastEvent.kind = "Clear"
    /\ ~pre.team_disabled
    /\ pre.team_options # <<>>

\* The teams t has met, in any year.
AllTimeOpponents(t) ==
    {matches_df[i].Away : i \in {k \in DOMAIN matches_df : matches_df[k].Home = t}}
    \cup {matches_df[i].Home : i \in {k \in DOMAIN matches_df : matches_df[k].Away = t}}

\* C5: once the cascade of SelectTeam(t) has ended no opponent is selected,
\* the head-to-head panel is visible, the opponent dropdown is enabled, and
\* its options are exactly the teams t has met in any match of any year,
\* each once, in ascending alphabetical order.
C5_SelectTeamSetsOpponents ==
    Done("SelectTeam") =>
        /\ ui.opponent_value = None
        /\ ui.h2h_panel_style = "block"
        /\ ~ui.opponent_disabled
        /\ Range(ui.opponent_options) = AllTimeOpponents(lastEvent.arg[1])
        /\ Ascending(ui.opponent_options)

\* The matches in which a and b met, in either order, in any year.
FixturesOf(a, b) ==
    {i \in DOMAIN matches_df :
        {matches_df[i].Home, matches_df[i].Away} = {a, b} /\ a # b}

\* C6: once the cascade of SelectOpponent(o) has ended with team t selected,
\* the head-to-head output is the record of t against o and its match count
\* is the number of matches of all years in which t and o met, in either
\* order (the output says that there is none when they never met).
C6_HeadToHeadOverAllYears ==
    Done("SelectOpponent") =>
        LET t == ui.team_value
            o == lastEvent.arg[1]
            n == Cardinality(FixturesOf(t, o))
        IN /\ ui.opponent_value = o
           /\ IF n = 0
              THEN ui.h2h_output.kind = "no matches"
              ELSE /\ ui.h2h_output.kind = "record"
                   /\ ui.h2h_output.team1 = t
                   /\ ui.h2h_output.opponent = o
                   /\ ui.h2h_output.matches_played = n

\* The two teams met twice, in two years and with home and away exchanged,
\* so one of the matches is not of the selected year.
C6_Witness ==
    /\ Done("SelectOpponent")
    /\ ui.h2h_output.kind = "record"
    /\ ui.h2h_output.matches_played = 2
    /\ \E i, j \in DOMAIN matches_df :
          /\ matches_df[i].Year # matches_df[j].Year
          /\ matches_df[i].Home = matches_df[j].Away
          /\ matches_df[i].Year # ui.scatter_clickData[1]

\* C7: every head-to-head record shown satisfies
\* wins of team1 + wins of the opponent + draws = matches played.
C7_HeadToHeadFiguresSum ==
    ui.h2h_output.kind = "record" =>
        ui.h2h_output.team1_wins + ui.h2h_output.opponent_wins + ui.h2h_output.draws
            = ui.h2h_output.matches_played

\* A record of two matches, one of them drawn and one won.
C7_Witness ==
    /\ ui.h2h_output.kind = "record"
    /\ ui.h2h_output.matches_played = 2
    /\ ui.h2h_output.draws = 1
    /\ ui.h2h_output.team1_wins + ui.h2h_output.opponent_wins = 1

\* The session SelectTeam(t) leads to from u through the team dropdown:
\* the value is set, update_team_details runs on it and, when it returns,
\* update_h2h_analysis runs on the opponent value it wrote.
AfterSelectTeam(u, t) ==
    LET u1 == [u EXCEPT !.team_value = t]
        out == update_team_details(t, u.scatter_clickData)
        u2 == [u1 EXCEPT !.team_player_summary = out.summary,
                         !.opponent_options = out.options,
                         !.opponent_value = out.value,
                         !.opponent_disabled = out.disabled,
                         !.h2h_panel_style = out.panel_style]
    IN IF out.exception # ""
       THEN u1
       ELSE [u2 EXCEPT !.h2h_output = update_h2h_analysis(out.value, t)]

\* C8: a map click on a country that is among the team options leads to the
\* session that SelectTeam of that country leads to from the same state.
C8_MapClickAsSelectTeam ==
    /\ Done("SelectTeam") => ui = AfterSelectTeam(pre, lastEvent.arg[1])
    /\ (Done("MapClick") /\ lastEvent.arg[1] \in Range(pre.team_options)) =>
          /\ ~pre.team_disabled
          /\ ui = AfterSelectTeam(pre, lastEvent.arg[1])

\* A map click on a participant of the selected year, made with another team
\* and an opponent selected, that selects the country and shows its journey.
C8_Witness ==
    /\ Done("MapClick")
    /\ lastEvent.arg[1] \in Range(pre.team_options)
    /\ pre.team_value \notin {None, lastEvent.arg[1]}
    /\ pre.opponent_value # None
    /\ ui.team_value = lastEvent.arg[1]
    /\ ui.team_player_summary.kind = "team"
    /\ ui.team_player_summary.team = lastEvent.arg[1]

\* C9: a map click on a country that is not among the team options (so every
\* map click made with no year selected) raises no error and leaves the
\* session as it was.
C9_MapClickOutsideOptions ==
    (lastEvent.kind = "MapClick" /\ lastEvent.arg[1] \notin Range(pre.team_options)) =>
        /\ ui = pre
        /\ ~raised
        /\ Quiescent \/ pending = <<Call("sync_dropdown_from_map_click",
                                         "world-map-choropleth", lastEvent.arg)>>

\* A map click on a country that does not take part in the selected year,
\* made with a team selected.
C9_Witness ==
    /\ Done("MapClick")
    /\ lastEvent.arg[1] \notin Range(pre.team_options)
    /\ pre.team_options # <<>>
    /\ pre.team_value # None

\* C11: for every year of the dataset and every team of the team list
\* update_tournament_details produces for that year, the team's journey has
\* at least one match, so a team chosen from the list never makes the lookup
\* of its initials (.iloc[0]) fail.
C11_JourneyOfListedTeamNonEmpty ==
    /\ \A i \in DOMAIN matches_df :
           \A t \in Range(tournament_teams(matches_df[i].Year)) :
               team_matches_of(matches_df[i].Year, t) # <<>>
    /\ (Done("SelectTeam") /\ ~raised) =>
           /\ ui.team_player_summary.kind = "team"
           /\ ui.team_player_summary.journey # <<>>

\* A team that only plays away in the selected year was chosen from the list
\* and its journey is shown.
C11_Witness ==
    /\ Done("SelectTeam")
    /\ ~raised
    /\ ui.team_player_summary.kind = "team"
    /\ ui.team_player_summary.team = lastEvent.arg[1]
    /\ ui.team_player_summary.journey # <<>>
    /\ \A i \in DOMAIN matches_df : matches_df[i].Home # lastEvent.arg[1]

\* The goals of team t and of the other side in match m.
GoalsOf(m, t) == IF m.Home = t THEN m.HomeGoals ELSE m.AwayGoals
GoalsAgainst(m, t) == IF m.Home = t THEN m.AwayGoals ELSE m.HomeGoals

\* C21: every row of a team journey shown is the row of one match of the team
\* in the selected year, in the order of the match table, with exactly one
\* result: a draw iff the goals are equal, a win iff the team's goals are
\* strictly more than the opponent's, whichever side the team played on, a
\* loss otherwise; the opponent is the other side of the match and the score
\* lists the team's goals first.
C21_JourneyResultByStrictComparison ==
    ui.team_player_summary.kind = "team" =>
        LET t == ui.team_player_summary.team
            y == ui.team_player_summary.year
            ms == RowsAt(matches_df, {i \in DOMAIN matches_df :
                                         /\ matches_df[i].Year = y
                                         /\ t \in {matches_df[i].Home, matches_df[i].Away}})
            journey == ui.team_player_summary.journey
        IN /\ Len(journey) = Len(ms)
           /\ \A i \in DOMAIN journey :
                  /\ journey[i].result \in {"W", "D", "L"}
                  /\ journey[i].result = "D" <=> GoalsOf(ms[i], t) = GoalsAgainst(ms[i], t)
                  /\ journey[i].result = "W" <=> GoalsOf(ms[i], t) > GoalsAgainst(ms[i], t)
                  /\ journey[i].result = "L" <=> GoalsOf(ms[i], t) < GoalsAgainst(ms[i], t)
                  /\ {journey[i].opponent, t} = {ms[i].Home, ms[i].Away}
                  /\ journey[i].opponent # t
                  /\ journey[i].score = <<GoalsOf(ms[i], t), GoalsAgainst(ms[i], t)>>

\* A journey of two matches is shown: one the team won away, one it lost at
\* home.
C21_Witness ==
    /\ Quiescent
    /\ ui.team_player_summary.kind = "team"
    /\ Len(ui.team_player_summary.journey) = 2
    /\ \E i, j \in DOMAIN matches_df :
          /\ matches_df[i].Year = ui.team_player_summary.year
          /\ matches_df[j].Year = ui.team_player_summary.year
          /\ matches_df[i].Away = ui.team_player_summary.team
          /\ matches_df[i].AwayGoals > matches_df[i].HomeGoals
          /\ matches_df[j].Home = ui.team_player_summary.team
          /\ matches_df[j].HomeGoals < matches_df[j].AwayGoals
    /\ {ui.team_player_summary.journey[i].result : i \in 1..2} = {"W", "L"}

\* The matches of the table in which a and b met, in the table's order.
MeetingsOf(a, b) == RowsAt(matches_df, FixturesOf(a, b))

\* The goals of team t summed over the matches ms.
TotalGoalsOf(ms, t) ==
    LET f[i \in 0..Len(ms)] == IF i = 0 THEN 0 ELSE f[i - 1] + GoalsOf(ms[i], t)
    IN f[Len(ms)]

\* C22: in every head-to-head record shown, the win count of team1 is the
\* number of the two teams' fixtures in which team1 scored strictly more,
\* whichever side was at home, the draws are the fixtures with equal goals,
\* and each goal total is that side's goals over the fixtures, so that the two
\* totals add up to all goals of those fixtures.
C22_HeadToHeadCountsAndTotals ==
    ui.h2h_output.kind = "record" =>
        LET a == ui.h2h_output.team1
            b == ui.h2h_output.opponent
            ms == MeetingsOf(a, b)
        IN /\ ui.h2h_output.team1_wins =
                  Cardinality({i \in DOMAIN ms : GoalsOf(ms[i], a) > GoalsOf(ms[i], b)})
           /\ ui.h2h_output.draws =
                  Cardinality({i \in DOMAIN ms : GoalsOf(ms[i], a) = GoalsOf(ms[i], b)})
           /\ ui.h2h_output.team1_goals = TotalGoalsOf(ms, a)
           /\ ui.h2h_output.opponent_goals = TotalGoalsOf(ms, b)
           /\ ui.h2h_output.team1_goals + ui.h2h_output.opponent_goals =
                  SumOver(ms, "HomeGoals") + SumOver(ms, "AwayGoals")

\* A record of two fixtures: team1 won one of them away, and both sides
\* scored.
C22_Witness ==
    /\ ui.h2h_output.kind = "record"
    /\ ui.h2h_output.matches_played = 2
    /\ ui.h2h_output.team1_wins >= 1
    /\ ui.h2h_output.team1_goals > 0
    /\ ui.h2h_output.opponent_goals > 0
    /\ \E i \in DOMAIN matches_df :
          /\ matches_df[i].Away = ui.h2h_output.team1
          /\ matches_df[i].Home = ui.h2h_output.opponent
          /\ matches_df[i].AwayGoals > matches_df[i].HomeGoals

\* C26: in every quiescent state, after any sequence of SelectYear,
\* SelectTeam, SelectOpponent, MapClick and Clear, the selection is well
\* formed: an opponent is set only if a team is set, a team is set only if a
\* year is selected, the team set is one of the teams of the selected year,
\* and the opponent set is one of the teams the team set has met.
C26_SelectionWellFormed ==
    Quiescent =>
        /\ ui.opponent_value # None => ui.team_value # None
        /\ ui.team_value # None =>
               /\ ui.scatter_clickData # <<>>
               /\ ui.tournament_summary.kind = "tournament"
               /\ ui.tournament_summary.year = ui.scatter_clickData[1]
               /\ ui.team_value \in TeamsOfYear(ui.scatter_clickData[1])
               /\ ui.team_value \in Range(ui.team_options)
        /\ ui.opponent_value # None =>
               /\ ui.opponent_value \in AllTimeOpponents(ui.team_value)
               /\ ui.opponent_value \in Range(ui.opponent_options)

\* C27: every opponent in the options update_team_details makes for a team
\* has met that team at least once and is not the team itself, so that
\* update_h2h_analysis, run for an opponent chosen from the options of the
\* opponent dropdown and the team selected, shows a record and never the
\* message that no match was found.
C27_OfferedOpponentHasFixture ==
    /\ \A t \in Teams :
           \A i \in DOMAIN historical_opponents(t) :
               LET o == historical_opponents(t)[i]
               IN /\ o # t
                  /\ FixturesOf(t, o) # {}
                  /\ update_h2h_analysis(o, t).kind = "record"
    /\ Done("SelectOpponent") =>
           /\ ui.h2h_output.kind = "record"
           /\ ui.team_value \notin Range(ui.opponent_options)

\* C29: once the cascade of a selection of the team that was selected already
\* has ended (a choice in the team dropdown, or a map click on that country),
\* made while an opponent was selected, no opponent is selected and the
\* head-to-head output is empty; and SelectTeam(t) is idempotent: issued again
\* in the state it has led to, it leads to that same state.
C29_ReselectingTeamClearsOpponent ==
    /\ (/\ Quiescent
        /\ lastEvent.kind \in {"SelectTeam", "MapClick"}
        /\ lastEvent.arg[1] \in Range(pre.team_options)
        /\ pre.team_value = lastEvent.arg[1]
        /\ pre.opponent_value # None) =>
           /\ ui.team_value = lastEvent.arg[1]
           /\ ui.opponent_value = None
           /\ ui.h2h_output.kind = "empty"
    /\ Done("SelectTeam") => AfterSelectTeam(ui, lastEvent.arg[1]) = ui

\* C14: whenever a cascade has ended, no panel shows content of a superseded
\* selection: the head-to-head output is empty or the record of the selected
\* team and opponent, the team summary is the placeholder or the summary of
\* the selected team in the selected year, and the opponent options are
\* those of the selected team (none when no team is selected).
C14_NoStalePanel ==
    Quiescent =>
        /\ \/ ui.h2h_output.kind = "empty"
           \/ /\ ui.team_value # None
              /\ ui.opponent_value # None
              /\ ui.h2h_output = update_h2h_analysis(ui.opponent_value, ui.team_value)
        /\ \/ ui.team_player_summary.kind = "placeholder"
           \/ /\ ui.team_value # None
              /\ ui.scatter_clickData # <<>>
              /\ ui.team_player_summary.kind = "team"
              /\ ui.team_player_summary.team = ui.team_value
              /\ ui.team_player_summary.year = ui.scatter_clickData[1]
        /\ ui.opponent_options =
              IF ui.team_value = None THEN <<>> ELSE historical_opponents(ui.team_value)

\* C16: after SelectYear(y) for a year whose matches yield no team, the team
\* dropdown has no options and is disabled.
C16_NoTeamsLeavesSelectorDisabled ==
    (Done("SelectYear") /\ TeamsOfYear(lastEvent.arg[1]) = {}) =>
        /\ ui.team_options = <<>>
        /\ ui.team_disabled

\* C17: a handler called with an empty selection returns its placeholder and
\* does not raise.  update_tournament_details without click data, or
\* triggered by the clear button, returns the 'Click on a tournament'
\* placeholder and the all-time leaderboard; update_team_details without a
\* team or without click data returns the 'Select a team' placeholder and
\* empties and disables the opponent dropdown; update_h2h_analysis without an
\* opponent or without a team returns empty content.  So after page load and
\* after Clear every panel shows its placeholder.  (The tables never change,
\* so the three functions are applied to every empty selection once per
\* dataset, when the page has loaded.)
C17_EmptySelectionGivesPlaceholder ==
    /\ Done("PageLoad") =>
           /\ \A clickData \in {<<>>} \cup {<<y>> : y \in ScatterYears} :
              \A triggered_id \in {"", "clear-selection-button", "world-cup-overview-scatter"} :
                  (triggered_id = "clear-selection-button" \/ clickData = <<>>) =>
                      LET out == update_tournament_details(clickData, triggered_id)
                      IN /\ out.exception = ""
                         /\ out.summary = [kind |-> "placeholder",
                                           text |-> "Click on a tournament to see details."]
                         /\ golden_boot_tables(clickData, triggered_id) = all_time_boot_tables
                         /\ all_time_boot_tables # {}
           /\ \A selected_team \in Teams \cup {None} :
              \A clickData \in {<<>>} \cup {<<y>> : y \in ScatterYears} :
                  (selected_team = None \/ clickData = <<>>) =>
                      LET out == update_team_details(selected_team, clickData)
                      IN /\ out.exception = ""
                         /\ out.summary = [kind |-> "placeholder",
                                           text |-> "Select a team to see their performance."]
                         /\ out.options = <<>>
                         /\ out.value = None
                         /\ out.disabled
           /\ \A opponent \in Teams \cup {None, ""} : \A team1 \in Teams \cup {None, ""} :
                  (~Truthy(opponent) \/ ~Truthy(team1)) =>
                      update_h2h_analysis(opponent, team1).kind = "empty"
    /\ (Quiescent /\ lastEvent.kind \in {"PageLoad", "Clear"}) =>
           /\ ~raised
           /\ ui.tournament_summary.kind = "placeholder"
           /\ ui.golden_boot \in all_time_boot_tables
           /\ ui.team_player_summary.kind = "placeholder"
           /\ ui.opponent_options = <<>>
           /\ ui.opponent_disabled
           /\ ui.h2h_output.kind = "empty"

\* The clear button was clicked with a year selected whose leaderboard is
\* not the all-time one, and the all-time leaderboard is shown again.
C17_Witness ==
    /\ Done("Clear")
    /\ pre.scatter_clickData # <<>>
    /\ pre.golden_boot.kind = "table"
    /\ pre.golden_boot \notin all_time_boot_tables
    /\ ui.golden_boot.kind = "table"
    /\ ui.tournament_summary.kind = "placeholder"

\* The goal rows of the player-event table in the matches of year y.
GoalRowsOfYear(y) ==
    SelectSeq(players_df, LAMBDA r :
        /\ Contains(r.Event, {"G", "P"})
        /\ \E i \in DOMAIN matches_df :
               matches_df[i].MatchID = r.MatchID /\ matches_df[i].Year = y)

\* C18: a valid selection without matching records is rendered, it does not
\* fail: SelectTeam(t) for a team of the selected year completes and shows
\* the journey of t also when the table has no player-event row of t in the
\* year's matches, and SelectYear(y) for a year without goal events shows
\* the 'No goals recorded.' message as its leaderboard.
C18_EmptyResultIsRendered ==
    /\ Done("SelectTeam") =>
           /\ ~raised
           /\ ui.team_player_summary.kind = "team"
           /\ ui.team_player_summary.team = lastEvent.arg[1]
           /\ ui.team_player_summary.journey # <<>>
    /\ (Done("SelectYear") /\ GoalRowsOfYear(lastEvent.arg[1]) = <<>>) =>
           /\ ~raised
           /\ ui.golden_boot = [kind |-> "message",
                                text |-> <<"No", "goals", "recorded.">>]

\* The callbacks a callback leads to, in one or more steps of Triggers.
RECURSIVE Closure(_)
Closure(S) ==
    LET T == S \cup {c \in Callbacks : \E b \in S : Triggers(b, c)}
    IN IF T = S THEN S ELSE Closure(T)

ReachedFrom(a) == Closure({b \in Callbacks : Triggers(a, b)})

\* C15: no callback leads back to itself; within the cascade of one user
\* event every callback that runs after another lies downstream of it and
\* never upstream; and every cascade ends in a quiescent state.
C15_CascadeTerminates ==
    /\ [](\A a \in Callbacks : a \notin ReachedFrom(a))
    /\ [][(~Quiescent /\ ~Quiescent') =>
            /\ Head(pending').callback \in ReachedFrom(Head(pending).callback)
            /\ Head(pending).callback \notin ReachedFrom(Head(pending').callback)]_vars
    /\ (~Quiescent ~> Quiescent)

\* The longest cascade has run to its end: a click on the clear button with
\* a team and an opponent selected ran the three callbacks down to the
\* head-to-head output.
C15_Witness ==
    /\ Done("Clear")
    /\ pre.team_value # None
    /\ pre.opponent_value # None
    /\ pre.h2h_output.kind = "record"
    /\ ui.h2h_output.kind = "empty"

-----------------------------------------------------------------------------
(* create_map_figure on its own: the arguments are drawn, the function is    *)
(* applied once.                                                              *)

\* The names on the map: the teams and one name get_country_iso_mapping has
\* no key for.
MapTeams == Teams \cup {"German DR"}

\* The lists of distinct names.
TeamLists ==
    {s \in UNION {[1..n -> MapTeams] : n \in 0..Cardinality(MapTeams)} :
        \A i, j \in DOMAIN s : i # j => s[i] # s[j]}

MapArguments ==
    [all_teams_list : TeamLists,
     teams_to_highlight : {Sorted(S) : S \in SUBSET MapTeams},
     winner : MapTeams \cup {None},
     runner_up : MapTeams \cup {None},
     third_place : MapTeams \cup {None}]

InitMap ==
    /\ world_cup_overview_df = add_continent_column(WorldCupsCsv)
    /\ peer = <<>>
    /\ fnArgs \in MapArguments
    /\ fnResult = [done |-> FALSE]
    /\ matches_df = <<>>
    /\ players_df = <<>>
    /\ ui = InitialLayout
    /\ pending = <<>>
    /\ lastEvent = [kind |-> "PageLoad", arg |-> None]
    /\ pre = InitialLayout
    /\ raised = FALSE

ApplyCreateMapFigure ==
    /\ ~fnResult.done
    /\ fnResult' = [done |-> TRUE,
                    map_df |-> create_map_figure(fnArgs.all_teams_list,
                                                 fnArgs.teams_to_highlight,
                                                 fnArgs.winner, fnArgs.runner_up,
                                                 fnArgs.third_place)]
    /\ UNCHANGED <<world_cup_overview_df, matches_df, players_df, peer,
                 ui, pending, lastEvent, pre, raised, fnArgs>>

NextMap == ApplyCreateMapFigure

SpecMap == InitMap /\ [][NextMap]_vars

\* The rank of the status the name c has under the arguments a: the highest
\* of the statuses that apply to it.
RankOfName(c, a) ==
    Max({StatusRank("Participated Historically")}
        \cup (IF c \in Range(a.teams_to_highlight)
              THEN {StatusRank("Active Participant")} ELSE {})
        \cup (IF c = a.third_place THEN {StatusRank("Third Place")} ELSE {})
        \cup (IF c = a.runner_up THEN {StatusRank("Runner-Up")} ELSE {})
        \cup (IF c = a.winner THEN {StatusRank("Winner")} ELSE {}))

\* C10: the map has exactly one row, so one status, for every ISO code that
\* a listed name maps to, and that status is the highest-ranked status among
\* the listed names that map to the code.
C10_OneStatusPerIsoTheHighest ==
    fnResult.done =>
        LET map_df == fnResult.map_df
            names == Range(fnArgs.all_teams_list)
            isos == {country_iso_map(c) : c \in names} \ {NaN}
        IN /\ \A i \in DOMAIN map_df : map_df[i].iso_alpha \in isos \cup {NaN}
           /\ \A iso \in isos :
                 LET rows == {i \in DOMAIN map_df : map_df[i].iso_alpha = iso}
                     aliases == {c \in names : country_iso_map(c) = iso}
                 IN /\ Cardinality(rows) = 1
                    /\ \A i \in rows :
                          /\ map_df[i].country \in aliases
                          /\ StatusRank(map_df[i].status)
                                = Max({RankOfName(c, fnArgs) : c \in aliases})

\* England and Scotland share a code; England, listed first, is the winner
\* and Scotland only takes part, and the code's one row says Winner.
C10_Witness ==
    /\ fnResult.done
    /\ Len(fnArgs.all_teams_list) = 4
    /\ fnArgs.all_teams_list[1] = "England"
    /\ fnArgs.all_teams_list[4] = "Scotland"
    /\ fnArgs.winner = "England"
    /\ fnArgs.teams_to_highlight = <<"England", "Scotland">>
    /\ \E i \in DOMAIN fnResult.map_df :
          /\ fnResult.map_df[i].iso_alpha = "GBR"
          /\ fnResult.map_df[i].status = "Winner"

-----------------------------------------------------------------------------
(* The leaderboards and the player statistics on their own: a player-event   *)
(* table is drawn, then one of the functions is applied once.                *)

\* The (player, team) pairs of the tables; Law plays for two teams.
Roster ==
    << <<"Amarildo", "BRA">>, <<"Ball", "ENG">>, <<"Charlton", "ENG">>,
       <<"Dalglish", "SCO">>, <<"Didi", "BRA">>, <<"Garrincha", "BRA">>,
       <<"Greaves", "ENG">>, <<"Hurst", "ENG">>, <<"Jordan", "SCO">>,
       <<"Law", "ENG">>, <<"Law", "SCO">>, <<"Pele", "BRA">>,
       <<"Peters", "ENG">>, <<"Vava", "BRA">> >>

\* The two matches of the tables, one per tournament.
BootMatches ==
    << [MatchID |-> 1, Year |-> 1930, Home |-> "Brazil", Away |-> "England",
        HomeGoals |-> 1, AwayGoals |-> 0,
        HomeInitials |-> "BRA", AwayInitials |-> "ENG"],
       [MatchID |-> 2, Year |-> 1934, Home |-> "England", Away |-> "Scotland",
        HomeGoals |-> 2, AwayGoals |-> 0,
        HomeInitials |-> "ENG", AwayInitials |-> "SCO"] >>

\* The rows of pair i of the roster: 1 + (i - 1) \div 3 rows with a goal, in
\* match 1 and match 2 in turn.
ScorerRows(i) ==
    [j \in 1..(1 + (i - 1) \div 3) |->
        [MatchID |-> IF j % 2 = 1 THEN 1 ELSE 2,
         TeamInitials |-> Roster[i][2], PlayerName |-> Roster[i][1],
         Event |-> <<"G">>]]

\* The rows of the pairs 1..k, one after the other.
RECURSIVE ScorersRows(_)
ScorersRows(k) == IF k = 0 THEN <<>> ELSE ScorersRows(k - 1) \o ScorerRows(k)

\* A player-event table: a caution and a row without a code, the goals of k
\* pairs, with compound one more row that records two goals in one code,
\* with orphan one more goal row whose MatchID is the id of no match.
BootTable(k, compound, orphan) ==
    << [MatchID |-> 1, TeamInitials |-> "BRA", PlayerName |-> "Pele",
        Event |-> <<"Y">>],
       [MatchID |-> 2, TeamInitials |-> "ENG", PlayerName |-> "Hurst",
        Event |-> <<>>] >>
    \o ScorersRows(k)
    \o (IF compound
        THEN <<[MatchID |-> 2, TeamInitials |-> "ENG", PlayerName |-> "Hurst",
                Event |-> <<"G", "G">>]>>
        ELSE <<>>)
    \o (IF orphan
        THEN <<[MatchID |-> 0, TeamInitials |-> "BRA", PlayerName |-> "Pele",
                Event |-> <<"G">>]>>
        ELSE <<>>)

BootTables ==
    {BootTable(k, compound, orphan) :
        k \in 0..MaxScorers, compound \in BOOLEAN, orphan \in BOOLEAN}

InitBoot ==
    /\ world_cup_overview_df = add_continent_column(WorldCupsCsv)
    /\ peer = <<>>
    /\ matches_df = BootMatches
    /\ players_df \in BootTables
    /\ fnArgs = [fn |-> "none"]
    /\ fnResult = [done |-> FALSE]
    /\ ui = InitialLayout
    /\ pending = <<>>
    /\ lastEvent = [kind |-> "PageLoad", arg |-> None]
    /\ pre = InitialLayout
    /\ raised = FALSE

\* The golden-boot-tracker output for the scope: <<>> all-time, <<y>> year y.
ApplyLeaderboard(scope) ==
    /\ ~fnResult.done
    /\ \E table \in golden_boot_tables(scope, "world-cup-overview-scatter") :
          fnResult' = [done |-> TRUE, table |-> table]
    /\ fnArgs' = [fn |-> "golden_boot_tables", scope |-> scope]
    /\ UNCHANGED <<world_cup_overview_df, matches_df, players_df, peer,
                 ui, pending, lastEvent, pre, raised>>

\* update_team_details for team t of the team list of year y.
ApplyUpdateTeamDetails(y, t) ==
    /\ ~fnResult.done
    /\ t \in Range(tournament_teams(y))
    /\ fnResult' = [done |-> TRUE, out |-> update_team_details(t, <<y>>)]
    /\ fnArgs' = [fn |-> "update_team_details", team |-> t, year |-> y]
    /\ UNCHANGED <<world_cup_overview_df, matches_df, players_df, peer,
                 ui, pending, lastEvent, pre, raised>>

NextBoot ==
    \/ \E scope \in {<<>>} \cup {<<y>> : y \in ScatterYears} : ApplyLeaderboard(scope)
    \/ \E y \in ScatterYears : \E t \in Teams : ApplyUpdateTeamDetails(y, t)

SpecBoot == InitBoot /\ [][NextBoot]_vars

\* The rows of the player-event table the scope covers.
ScopeRows(scope) ==
    IF scope = <<>> THEN players_df
    ELSE SelectSeq(players_df, LAMBDA r :
             \E i \in DOMAIN matches_df :
                 matches_df[i].MatchID = r.MatchID /\ matches_df[i].Year = scope[1])

\* The (player, team) pairs with a goal row in the scope.
ScorersOf(scope) ==
    {<<r.PlayerName, r.TeamInitials>> : r \in Range(goal_events(ScopeRows(scope)))}

\* The number of goal rows of the pair in the scope.
GoalRowsOf(pair, scope) ==
    Len(SelectSeq(goal_events(ScopeRows(scope)), LAMBDA r :
            r.PlayerName = pair[1] /\ r.TeamInitials = pair[2]))

\* Pair a comes before pair b in the order of a leaderboard: more goals, or
\* as many and the player's name earlier.
Precedes(a, b, scope) ==
    \/ GoalRowsOf(a, scope) > GoalRowsOf(b, scope)
    \/ /\ GoalRowsOf(a, scope) = GoalRowsOf(b, scope)
       /\ NameRank(a[1]) < NameRank(b[1])

\* The pairs a leaderboard lists, in its order (none for the message).
Listed(table) ==
    IF table.kind = "table"
    THEN [i \in DOMAIN table.rows |-> <<table.rows[i].Player, table.rows[i].Team>>]
    ELSE <<>>

\* C12: a leaderboard, all-time or of a year, lists at most 10 (player, team)
\* pairs of its scope, each once, by goal count descending and, among equal
\* counts, by player name ascending, and no pair it leaves out comes before
\* one it lists in that order.
C12_LeaderboardTopTenInOrder ==
    (fnResult.done /\ fnArgs.fn = "golden_boot_tables") =>
        LET listed == Listed(fnResult.table)
            scope == fnArgs.scope
        IN /\ Len(listed) <= TopN
           /\ Range(listed) \subseteq ScorersOf(scope)
           /\ \A i, j \in DOMAIN listed :
                 i < j => /\ listed[i] # listed[j]
                          /\ ~Precedes(listed[j], listed[i], scope)
           /\ \A a \in ScorersOf(scope) \ Range(listed) :
                 /\ Len(listed) = TopN
                 /\ \A i \in DOMAIN listed : ~Precedes(a, listed[i], scope)

\* The number of goal events the rows record: every G and every P of every
\* code.
GoalEvents(rows) ==
    LET f[i \in 0..Len(rows)] ==
            IF i = 0 THEN 0
            ELSE f[i - 1] + Len(SelectSeq(rows[i].Event, LAMBDA e : e \in {"G", "P"}))
    IN f[Len(rows)]

\* C13: the count the all-time leaderboard shows for a (player, team) pair is
\* the number of goal events the table records for the pair, also when one
\* row's code records several goals.
C13_CountIsNumberOfGoalEvents ==
    (fnResult.done /\ fnArgs.fn = "golden_boot_tables" /\ fnArgs.scope = <<>>
       /\ fnResult.table.kind = "table") =>
        \A i \in DOMAIN fnResult.table.rows :
            LET row == fnResult.table.rows[i]
            IN row.Metric =
                   GoalEvents(SelectSeq(players_df, LAMBDA r :
                       r.PlayerName = row.Player /\ r.TeamInitials = row.Team))

\* The MatchID of the row is the id of a match.
Resolved(r) == \E i \in DOMAIN matches_df : matches_df[i].MatchID = r.MatchID

\* C19: a player-event row whose MatchID is the id of no match counts in no
\* aggregation: the count a leaderboard, all-time or of a year, shows for a
\* (player, team) pair is the number of the pair's goal rows of the scope
\* that belong to a match, and the goals of a player's stat line are those
\* of the player's rows in the team's matches of the year.
C19_UnresolvedRecordsExcluded ==
    /\ (fnResult.done /\ fnArgs.fn = "golden_boot_tables"
          /\ fnResult.table.kind = "table") =>
           \A i \in DOMAIN fnResult.table.rows :
               LET row == fnResult.table.rows[i]
               IN row.Metric =
                      Len(SelectSeq(goal_events(ScopeRows(fnArgs.scope)), LAMBDA r :
                              /\ Resolved(r)
                              /\ r.PlayerName = row.Player
                              /\ r.TeamInitials = row.Team))
    /\ (fnResult.done /\ fnArgs.fn = "update_team_details"
          /\ fnResult.out.exception = "") =>
           \A i \in DOMAIN fnResult.out.summary.players :
               LET line == fnResult.out.summary.players[i]
               IN line.Goals =
                      Len(SelectSeq(goal_events(ScopeRows(<<fnArgs.year>>)), LAMBDA r :
                              /\ r.PlayerName = line.Player
                              /\ r.TeamInitials = InitialsOf(fnArgs.team)
                              /\ \E m \in Range(team_matches_of(fnArgs.year, fnArgs.team)) :
                                     m.MatchID = r.MatchID))


-----------------------------------------------------------------------------
(* Names without a flag or an ISO code *)

\* The team names of the match tables below: two names of the flag dict, a
\* name that is no key of it, and the missing value of a blank CSV cell.
NameSet == {"Brazil", "England", "German DR", NaN}

\* The arguments get_flag_url is applied to.
FlagArguments == {None, NaN, "", " ", "German DR", "Brazil", " Brazil ", "England"}

\* The match tables of NumMatches rows over NameSet, every match 1 - 0.
NameTables ==
    { [i \in 1..NumMatches |->
          [MatchID |-> i, Year |-> f[i][1],
           Home |-> f[i][2], Away |-> f[i][3],
           HomeGoals |-> 1, AwayGoals |-> 0,
           HomeInitials |-> InitialsOf(f[i][2]),
           AwayInitials |-> InitialsOf(f[i][3])]] :
      f \in [1..NumMatches ->
                { r \in ScatterYears \X NameSet \X NameSet : r[2] # r[3] }] }

InitNames ==
    /\ world_cup_overview_df = add_continent_column(WorldCupsCsv)
    /\ peer = <<>>
    /\ matches_df \in NameTables
    /\ players_df = Lineups(matches_df, None)
    /\ fnArgs = [fn |-> "none"]
    /\ fnResult = [done |-> FALSE]
    /\ ui = InitialLayout
    /\ pending = <<>>
    /\ lastEvent = [kind |-> "PageLoad", arg |-> None]
    /\ pre = InitialLayout
    /\ raised = FALSE

ApplyGetFlagUrl(country_name) ==
    /\ ~fnResult.done
    /\ fnResult' = [done |-> TRUE, url |-> get_flag_url(country_name)]
    /\ fnArgs' = [fn |-> "get_flag_url", country_name |-> country_name]
    /\ UNCHANGED <<world_cup_overview_df, matches_df, players_df, peer,
                 ui, pending, lastEvent, pre, raised>>

\* update_tournament_details for a click on the tournament of year y.
ApplySelectYear(y) ==
    /\ ~fnResult.done
    /\ fnResult' = [done |-> TRUE,
                    out |-> update_tournament_details(<<y>>, "world-cup-overview-scatter")]
    /\ fnArgs' = [fn |-> "update_tournament_details", year |-> y]
    /\ UNCHANGED <<world_cup_overview_df, matches_df, players_df, peer,
                 ui, pending, lastEvent, pre, raised>>

\* update_team_details for a team t (a string, as a dropdown value is) that
\* plays in year y.
ApplySelectTeam(y, t) ==
    /\ ~fnResult.done
    /\ t # NaN
    /\ team_matches_of(y, t) # <<>>
    /\ fnResult' = [done |-> TRUE, out |-> update_team_details(t, <<y>>)]
    /\ fnArgs' = [fn |-> "update_team_details", team |-> t, year |-> y]
    /\ UNCHANGED <<world_cup_overview_df, matches_df, players_df, peer,
                 ui, pending, lastEvent, pre, raised>>

NextNames ==
    \/ \E country_name \in FlagArguments : ApplyGetFlagUrl(country_name)
    \/ \E y \in ScatterYears : ApplySelectYear(y)
    \/ \E y \in ScatterYears : \E t \in NameSet : ApplySelectTeam(y, t)

SpecNames == InitNames /\ [][NextNames]_vars

\* name is no key of the flag dict: an unknown name, an empty or blank
\* string, or no string at all.
NoFlagEntry(name) ==
    \/ name \in {None, NaN}
    \/ MANUAL_NAME_TO_ISO2(strip(name)) = ""

\* C20: a country or team name with no flag or ISO entry (an unknown name, the
\* empty string, a value that is no string) makes no handler fail:
\* get_flag_url returns the empty string for it, and the tournament summary
\* (with the map) and the team journey are rendered, the flag of such a name
\* being the empty string.
C20_NameWithoutFlagNeverFails ==
    /\ (fnResult.done /\ fnArgs.fn = "get_flag_url"
          /\ NoFlagEntry(fnArgs.country_name)) =>
           fnResult.url = <<>>
    /\ (fnResult.done /\ fnArgs.fn = "update_tournament_details") =>
           /\ fnResult.out.exception = ""
           /\ fnResult.out.summary.kind = "tournament"
           /\ \A i \in DOMAIN all_teams :
                  \E j \in DOMAIN fnResult.out.map_fig :
                      fnResult.out.map_fig[j].iso_alpha = country_iso_map(all_teams[i])
    /\ (fnResult.done /\ fnArgs.fn = "update_team_details") =>
           /\ fnResult.out.exception = ""
           /\ \A i \in DOMAIN fnResult.out.summary.journey :
                  LET row == fnResult.out.summary.journey[i]
                  IN NoFlagEntry(row.opponent) => row.flag = <<>>


-----------------------------------------------------------------------------
(* Two sessions of one server *)

\* The session the variables ui, pending, lastEvent, pre and raised hold.
Here ==
    [ui |-> ui, pending |-> pending, lastEvent |-> lastEvent, pre |-> pre,
     raised |-> raised]

\* A session whose page has just been loaded.
PageLoaded ==
    [ui |-> InitialLayout,
     pending |-> <<Call("update_tournament_details", "", <<>>)>>,
     lastEvent |-> [kind |-> "PageLoad", arg |-> None],
     pre |-> InitialLayout,
     raised |-> FALSE]

\* Two browsers have loaded the page of one server, which holds the matches
\* of BootMatches and the player events of both sides or of all but England.
InitTwo ==
    /\ world_cup_overview_df = add_continent_column(WorldCupsCsv)
    /\ matches_df = BootMatches
    /\ players_df \in {Lineups(matches_df, None), Lineups(matches_df, "ENG")}
    /\ ui = PageLoaded.ui
    /\ pending = PageLoaded.pending
    /\ lastEvent = PageLoaded.lastEvent
    /\ pre = PageLoaded.pre
    /\ raised = PageLoaded.raised
    /\ peer = PageLoaded
    /\ fnArgs = <<>>
    /\ fnResult = <<>>

\* The next event or request the server sees is of the other session: the
\* two sessions change places.  It can happen between any two callbacks.
OtherSession ==
    /\ peer # <<>>
    /\ ui' = peer.ui
    /\ pending' = peer.pending
    /\ lastEvent' = peer.lastEvent
    /\ pre' = peer.pre
    /\ raised' = peer.raised
    /\ peer' = Here
    /\ UNCHANGED <<world_cup_overview_df, matches_df, players_df, fnArgs, fnResult>>

NextTwo ==
    \/ Next
    \/ OtherSession

SpecTwo == InitTwo /\ [][NextTwo]_vars

\* The sessions a session can be in after update_tournament_details has run
\* on u for the trigger triggered_id and its cascade has ended, had the
\* session run alone: one per order of a leaderboard with ties.
AloneAfterTournament(u, triggered_id) ==
    LET out == update_tournament_details(u.scatter_clickData, triggered_id)
    IN IF out.exception # ""
       THEN {u}
       ELSE { AfterSelectTeam([u EXCEPT !.map_figure = out.map_fig,
                                       !.tournament_summary = out.summary,
                                       !.golden_boot = boot_table,
                                       !.team_options = out.options,
                                       !.team_disabled = out.disabled,
                                       !.clear_style = out.clear_style],
                              out.value) :
                boot_table \in golden_boot_tables(u.scatter_clickData, triggered_id) }

\* The sessions the event e leads to from u, had the session run alone.
AloneAfter(u, e) ==
    CASE e.kind = "PageLoad" -> AloneAfterTournament(u, "")
      [] e.kind = "SelectYear" ->
            AloneAfterTournament([u EXCEPT !.scatter_clickData = e.arg],
                                 "world-cup-overview-scatter")
      [] e.kind = "Clear" -> AloneAfterTournament(u, "clear-selection-button")
      [] e.kind = "SelectTeam" -> {AfterSelectTeam(u, e.arg[1])}
      [] e.kind = "SelectOpponent" ->
            {[u EXCEPT !.opponent_value = e.arg[1],
                       !.h2h_output = update_h2h_analysis(e.arg[1], u.team_value)]}
      [] e.kind = "MapClick" ->
            IF e.arg[1] \in Range(u.team_options)
            THEN {AfterSelectTeam(u, e.arg[1])} ELSE {u}

\* C23: with two sessions whose events and callbacks interleave in any way,
\* the selection and the panels of each session, once the cascade of its last
\* event has ended, are what that event leads to from the session's own state
\* before it, had the session run alone; and nothing the server does for one
\* session changes the other session.
C23_SessionsAreIndependent ==
    /\ [](Quiescent => ui \in AloneAfter(pre, lastEvent))
    /\ []((peer # <<>> /\ peer.pending = <<>>) =>
              peer.ui \in AloneAfter(peer.pre, peer.lastEvent))
    /\ [][peer' # peer => (peer' = Here /\ Here' = peer)]_vars

\* Both sessions have ended a cascade, one with a team of 1930 selected and
\* the other with a team of 1934 selected.
C23_Witness ==
    /\ Quiescent
    /\ peer # <<>>
    /\ peer.pending = <<>>
    /\ ui.scatter_clickData = <<1930>>
    /\ peer.ui.scatter_clickData = <<1934>>
    /\ ui.team_player_summary.kind = "team"
    /\ peer.ui.team_player_summary.kind = "team"
    /\ ui.team_player_summary.year = 1930
    /\ peer.ui.team_player_summary.year = 1934


-----------------------------------------------------------------------------
(* The reference data under the handlers: the tables are drawn, then the    *)
(* handlers are invoked one after another, in any order and on any          *)
(* arguments, each leaving the tables as its code leaves them.               *)

\* The values of the year-range slider.
YearRanges == {r \in ScatterYears \X ScatterYears : r[1] <= r[2]}

\* The values of the scatter's clickData: None or the point of a tournament.
ClickData == {<<>>} \cup {<<y>> : y \in ScatterYears}

InitStore ==
    /\ world_cup_overview_df = add_continent_column(WorldCupsCsv)
    /\ matches_df \in MatchTables
    /\ players_df = Lineups(matches_df, None)
    /\ fnArgs = [fn |-> "none"]
    /\ fnResult = <<>>
    /\ ui = InitialLayout
    /\ pending = <<>>
    /\ lastEvent = [kind |-> "PageLoad", arg |-> None]
    /\ pre = InitialLayout
    /\ raised = FALSE
    /\ peer = <<>>

\* update_overview_scatter is invoked; the tournament table is what the
\* function leaves of it.
InvokeUpdateOverviewScatter(year_range) ==
    /\ fnArgs' = [fn |-> "update_overview_scatter"]
    /\ fnResult' = [figure |-> update_overview_scatter(year_range).figure,
                    summary_text |-> update_overview_scatter(year_range).summary_text]
    /\ world_cup_overview_df' = update_overview_scatter(year_range).store
    /\ UNCHANGED <<matches_df, players_df, peer, ui, pending, lastEvent, pre, raised>>

\* The other handlers assign no table and no column of one.
InvokeUpdateTournamentDetails(clickData, triggered_id) ==
    /\ fnArgs' = [fn |-> "update_tournament_details"]
    /\ fnResult' = update_tournament_details(clickData, triggered_id)
    /\ UNCHANGED <<world_cup_overview_df, matches_df, players_df, peer,
                   ui, pending, lastEvent, pre, raised>>

InvokeUpdateTeamDetails(selected_team, clickData) ==
    /\ fnArgs' = [fn |-> "update_team_details"]
    /\ fnResult' = update_team_details(selected_team, clickData)
    /\ UNCHANGED <<world_cup_overview_df, matches_df, players_df, peer,
                   ui, pending, lastEvent, pre, raised>>

InvokeUpdateH2HAnalysis(opponent, team1) ==
    /\ fnArgs' = [fn |-> "update_h2h_analysis"]
    /\ fnResult' = update_h2h_analysis(opponent, team1)
    /\ UNCHANGED <<world_cup_overview_df, matches_df, players_df, peer,
                   ui, pending, lastEvent, pre, raised>>

InvokeSyncDropdownFromMapClick(map_click) ==
    /\ fnArgs' = [fn |-> "sync_dropdown_from_map_click"]
    /\ fnResult' = [value |-> sync_dropdown_from_map_click(map_click, all_teams)]
    /\ UNCHANGED <<world_cup_overview_df, matches_df, players_df, peer,
                   ui, pending, lastEvent, pre, raised>>

NextStore ==
    \/ \E year_range \in YearRanges : InvokeUpdateOverviewScatter(year_range)
    \/ \E clickData \in ClickData :
          \E triggered_id \in {"world-cup-overview-scatter", "clear-selection-button"} :
              InvokeUpdateTournamentDetails(clickData, triggered_id)
    \/ \E selected_team \in Teams \cup {None} : \E clickData \in ClickData :
          InvokeUpdateTeamDetails(selected_team, clickData)
    \/ \E opponent \in Teams \cup {None} : \E team1 \in Teams \cup {None} :
          InvokeUpdateH2HAnalysis(opponent, team1)
    \/ \E map_click \in {<<>>} \cup {<<c>> : c \in Teams} :
          InvokeSyncDropdownFromMapClick(map_click)

SpecStore == InitStore /\ [][NextStore]_vars

\* The Reference Data Store: the three tables; the team list is made of the
\* match table, and the ISO, flag and continent maps are fixed by their
\* definitions.
ReferenceDataStore == <<world_cup_overview_df, matches_df, players_df>>

\* C24: no invocation of a handler changes the Reference Data Store: the
\* tournament, match and player-event tables are the same before and after
\* it (update_overview_scatter converts the Attendance column of its own
\* copy only).
C24_HandlersLeaveReferenceData ==
    [][ReferenceDataStore' = ReferenceDataStore]_vars

\* update_overview_scatter has returned a figure with the attendance as a
\* number, and the Attendance column of the table still holds the strings.
C24_Witness ==
    /\ fnArgs.fn = "update_overview_scatter"
    /\ Len(fnResult.figure) = 2
    /\ fnResult.figure[2].points[1].customdata[4] = 363000
    /\ \A i \in DOMAIN world_cup_overview_df :
           world_cup_overview_df[i].Attendance.dtype = "str"


\* C28: a head-to-head record is symmetric under the exchange of the two
\* teams: update_h2h_analysis for (a, b) and for (b, a) select the same
\* matches and give the same number of draws, with the wins of a and of b
\* exchanged and the two goal totals exchanged; and the opponent's wins, which
\* the function derives from the other counts, are the number of matches the
\* opponent won, never less than zero.
C28_HeadToHeadSymmetric ==
    (fnArgs.fn = "update_h2h_analysis" /\ fnResult.kind = "record") =>
        LET a == fnResult.team1
            b == fnResult.opponent
            swapped == update_h2h_analysis(a, b)
            ms == MeetingsOf(a, b)
        IN /\ a # b
           /\ h2h_matches_of(a, b) = h2h_matches_of(b, a)
           /\ swapped.kind = "record"
           /\ swapped.team1 = b
           /\ swapped.opponent = a
           /\ swapped.matches_played = fnResult.matches_played
           /\ swapped.draws = fnResult.draws
           /\ swapped.team1_wins = fnResult.opponent_wins
           /\ swapped.opponent_wins = fnResult.team1_wins
           /\ swapped.team1_goals = fnResult.opponent_goals
           /\ swapped.opponent_goals = fnResult.team1_goals
           /\ fnResult.opponent_wins =
                  Cardinality({i \in DOMAIN ms : GoalsOf(ms[i], b) > GoalsOf(ms[i], a)})
           /\ fnResult.opponent_wins >= 0

\* The record of two teams that met twice, each once at home, with one win
\* each and unequal goal totals.
C28_Witness ==
    /\ fnArgs.fn = "update_h2h_analysis"
    /\ fnResult.kind = "record"
    /\ fnResult.matches_played = 2
    /\ fnResult.team1_wins = 1
    /\ fnResult.opponent_wins = 1
    /\ fnResult.team1_goals # fnResult.opponent_goals
    /\ matches_df[1].Home = matches_df[2].Away

-----------------------------------------------------------------------------
(* Startup: the module code of app.py, from the files of the data folder.   *)

\* What the data folder can hold of one CSV file: the file with its table,
\* no file, or a file whose reading raises.
FileOf(tables) ==
    [kind : {"table"}, table : tables] \cup {[kind |-> "missing"], [kind |-> "unreadable"]}

\* The data folders of the model.
DataFolders ==
    [WorldCups : FileOf({WorldCupsCsv}),
     WorldCupMatches : FileOf(MatchTables),
     WorldCupPlayers : FileOf({<<>>})]

\* A value of the tuple load_world_cup_data returns: a table or None.
NoTable == [kind |-> "None"]
Table(rows) == [kind |-> "table", table |-> rows]

\* load_world_cup_data: the value of its return statement.  Each table is
\* None until its file has been read; an exception while reading returns
\* four None; the value is a tuple of four in either case.  The player
\* events of the file are those of the matches of the folder.
load_world_cup_data(folder) ==
    LET read(file) == IF file.kind = "table" THEN file ELSE NoTable
        matches == read(folder.WorldCupMatches)
        players == IF folder.WorldCupPlayers.kind = "table" /\ matches # NoTable
                   THEN Table(Lineups(matches.table, None))
                   ELSE read(folder.WorldCupPlayers)
        teams == IF matches = NoTable THEN Table(<<>>)
                 ELSE Table(Unique([i \in 1..(2 * Len(matches.table)) |->
                                 IF i <= Len(matches.table) THEN matches.table[i].Home
                                 ELSE matches.table[i - Len(matches.table)].Away]))
    IN IF "unreadable" \in {folder.WorldCups.kind, folder.WorldCupMatches.kind,
                            folder.WorldCupPlayers.kind}
       THEN <<NoTable, NoTable, NoTable, NoTable>>
       ELSE <<read(folder.WorldCups), matches, players, teams>>

\* The names the first statement of app.py binds, with the number of
\* targets of the assignment and of values of the tuple.
Targets == <<"world_cup_overview_df", "matches_df", "players_df">>

\* The parameters of register_callbacks without a default, and the arguments
\* app.py calls it with.
Parameters ==
    <<"app", "world_cup_overview_df", "matches_df", "players_df", "all_teams",
      "country_iso_map">>
Arguments == <<"app", "world_cup_overview_df", "matches_df", "players_df">>

\* The module code of app.py after load_world_cup_data has returned: the
\* state startup ends in, the error that ended it ("" when it is serving),
\* and the three tables when they were bound.
app_module(returned) ==
    IF Len(returned) # Len(Targets)
    THEN [state |-> "aborted", exception |-> "ValueError"]    \* unpacking
    ELSE
    LET overview == IF returned[1] # NoTable
                    THEN Table(add_continent_column(returned[1].table))
                    ELSE NoTable
        failed == overview = NoTable \/ returned[2] = NoTable \/ returned[3] = NoTable
        tables == IF failed THEN <<<<>>, <<>>, <<>>>>
                  ELSE <<overview.table, returned[2].table, returned[3].table>>
    IN IF Len(Arguments) # Len(Parameters)
       THEN [state |-> "aborted", exception |-> "TypeError",  \* register_callbacks
             tables |-> tables]
       ELSE [state |-> "serving", exception |-> "", tables |-> tables]

\* Before the module code has bound them the three names hold no table
\* (<<None>>).
InitStartup ==
    /\ fnArgs \in DataFolders
    /\ fnResult = [state |-> "starting"]
    /\ world_cup_overview_df = <<None>>
    /\ matches_df = <<None>>
    /\ players_df = <<None>>
    /\ ui = InitialLayout
    /\ pending = <<>>
    /\ lastEvent = [kind |-> "Startup", arg |-> None]
    /\ pre = InitialLayout
    /\ raised = FALSE
    /\ peer = <<>>

\* load_world_cup_data() is called and returns.
LoadWorldCupData ==
    /\ fnResult.state = "starting"
    /\ fnResult' = [state |-> "loaded", returned |-> load_world_cup_data(fnArgs)]
    /\ UNCHANGED <<world_cup_overview_df, matches_df, players_df, peer,
                   ui, pending, lastEvent, pre, raised, fnArgs>>

\* The rest of the module runs: it binds the tables and ends serving, or
\* ends with an error before it has bound them.
RunAppModule ==
    /\ fnResult.state = "loaded"
    /\ LET out == app_module(fnResult.returned)
       IN /\ fnResult' = [state |-> out.state, exception |-> out.exception,
                          returned |-> fnResult.returned]
          /\ IF out.exception = "ValueError"
             THEN UNCHANGED <<world_cup_overview_df, matches_df, players_df>>
             ELSE /\ world_cup_overview_df' = out.tables[1]
                  /\ matches_df' = out.tables[2]
                  /\ players_df' = out.tables[3]
    /\ UNCHANGED <<peer, ui, pending, lastEvent, pre, raised, fnArgs>>

NextStartup ==
    \/ LoadWorldCupData
    \/ RunAppModule

SpecStartup == InitStartup /\ [][NextStartup]_vars

\* Loading one of the three datasets has failed: a file is missing or
\* reading one raised.
LoadFailed ==
    \E file \in {fnArgs.WorldCups, fnArgs.WorldCupMatches, fnArgs.WorldCupPlayers} :
        file.kind # "table"

\* C25: when loading any of the three datasets fails (a file is missing or
\* reading raises), startup does not abort: once the module code has run, the
\* three tables are empty tables and the application is in the serving state.
C25_FailedLoadStillServes ==
    (LoadFailed /\ fnResult.state \notin {"starting", "loaded"}) =>
        /\ fnResult.state = "serving"
        /\ world_cup_overview_df = <<>>
        /\ matches_df = <<>>
        /\ players_df = <<>>

=============================================================================
